---- MODULE Spec2Model ----
(***************************************************************************)
(* A model of idrac-wrapper: the session broker IdracAccessor.connect with *)
(* its login loop, and the command executor IDrac._read_reply with the     *)
(* message extraction IDrac._message (src/idrac/idracaccessor.py).          *)
(***************************************************************************)
EXTENDS Integers, Sequences, FiniteSets, TLC

(***************************************************************************)
(* Bounds of the model.                                                    *)
(***************************************************************************)
\* login attempts of one connect that the model follows
MaxAttempts == 3
\* connect calls made on one IdracAccessor
MaxConnects == 1

(***************************************************************************)
(* Values.                                                                 *)
(***************************************************************************)
\* Python's None where a string is expected
None == "None"
Hosts == {"bmc1", "bmc2"}
\* tokens the session cache file may hold at startup
OldTokens == {"TOK1"}
\* tokens the controller issues to new sessions, in order of issue
FreshTokens == <<"NEW1", "NEW2", "NEW3", "NEW4">>
Passwords == {"pwA", "pwB"}
\* the password provider raising instead of producing a password
ProviderFails == "ProviderFails"
FileModes == {"0600", "0644"}

VARIABLES
    \* ---- the world around the accessor
    file,          \* the session cache file: [exists, mode, sessions]
    kr,            \* the keyring entry ('idrac', login_account), or None
    ctrlPw,        \* the password the controller accepts
    ctrlSessions,  \* {<<host, token>>}: the sessions the controller accepts
    \* ---- IdracAccessor
    state_data,    \* self.state_data['sessions']: host -> token or None
    clientKey,     \* the session key self.redfish_client holds, or None
    \* ---- locals of connect / _login
    pc, hostname, sessionkey, pw, good_keyring,
    \* ---- what connect gave back
    result,        \* the IDrac handle: [made, idracname, session_key]
    err,           \* the exception connect ended with, or None
    \* ---- bookkeeping
    log,           \* the calls of the running connect, in order: [op, arg, res]
    nAttempts,     \* login attempts of the running connect
    nConnects,     \* connects started
    nLogins,       \* sessions the controller has issued
    file0, kr0,    \* file and keyring entry when the running connect started
    startup,       \* state_data as __init__ read it
    \* ---- command executor (_read_reply)
    rpc,              \* "off", "post" (action to be issued), "read", "returned", "raised"
    expected_status, good_message,
    resp,             \* the RestResponse: [status, task_location, body]
    reply,            \* what _read_reply gave: [raised, value]
    \* ---- power transitions (turn_off, force_off, turn_on)
    ppc,              \* "off", "idle", "done"
    power,            \* PowerState as the system resource reports it
    method,           \* the transition called, or None
    posts,            \* the ResetType of every reset action posted, in order
    \* ---- job polling (job_status, wait_for)
    wpc,              \* "off", "idle", "poll", "sleep", "returned", "raised"
    job_id, allow404, \* the arguments of wait_for
    polls,            \* the answers to the polls so far, in order: [status, data]
    sleeps,           \* time.sleep(.1) calls so far
    wres,             \* what wait_for gave: [raised, status, data]
    task,             \* the controller's answer for the task: [status, data]
    \* ---- accounts
    apc,              \* "off", "idle", "done"
    members,          \* mq['Members'] of the account collection, in the controller's order
    listed,           \* the Members the operation was answered with
    acall,            \* the operation called and its arguments
    aresult,          \* what it gave: [raised, value]
    patches,          \* the PATCH requests sent, in order: [slot, payload]
    answered,         \* the status the controller answered each PATCH with
    queries,          \* queries of the account collection
    warned,           \* ilogger.warning calls
    ncalls,           \* account operations that have returned to the caller
    \* ---- virtual media listing (get_virtual)
    vpc,              \* "off", "idle", "loop", "returned", "raised"
    vcoll,            \* r: the answer to the device collection query
    devices,          \* the device names read from the collection
    vgets,            \* r2 of each device queried so far
    vresult,          \* the VirtualMedia collected so far
    vreply,           \* what get_virtual gave: [raised, succeeded, msg, results]
    \* ---- the account driver's loop over the controllers
    dpc,              \* "off", "loop", "ended", "crashed"
    script,           \* which of the two drivers runs
    mode,             \* the operation asked for: "accounts", "create", "password"
    idracs,           \* the batch, in order
    attempted,        \* the controllers whose iteration was begun, in order
    reported,         \* the controllers an exception was printed for, in order
    \* ---- two processes on one session cache file
    cache,            \* the file: [exists, sessions, writer]
    procs,            \* per process: [pc, state_data, host, token]
    \* ---- the management driver's boot-order options
    mpc,              \* "off", "idle", "replied", "raised", "waiting", "returned", "crashed"
    option,           \* the option given: "next_boot_virtual", "pxe_boot", or None
    waited            \* the job argument of every wait_for call, in order

connVars == <<file, kr, ctrlPw, ctrlSessions, state_data, clientKey, pc, hostname,
              sessionkey, pw, good_keyring, result, err, log, nAttempts, nConnects,
              nLogins, file0, kr0, startup>>
replyVars == <<rpc, expected_status, good_message, resp, reply>>
powerVars == <<ppc, power, method, posts>>
waitVars == <<wpc, job_id, allow404, polls, sleeps, wres, task>>
acctVars == <<apc, members, listed, acall, aresult, patches, answered, queries, warned, ncalls>>
\* what the session broker never touches
virtVars == <<vpc, vcoll, devices, vgets, vresult, vreply>>
driverVars == <<dpc, script, mode, idracs, attempted, reported>>
twoVars == <<cache, procs>>
manageVars == <<mpc, option, waited>>
notConn == <<replyVars, powerVars, waitVars, acctVars, virtVars, driverVars, twoVars, manageVars>>
\* what the command executor alone never touches
notReply == <<connVars, powerVars, waitVars, acctVars, virtVars, driverVars, twoVars, manageVars>>
vars == <<connVars, replyVars, powerVars, waitVars, acctVars, virtVars, driverVars, twoVars, manageVars>>

(***************************************************************************)
(* IdracAccessor.__init__                                                  *)
(***************************************************************************)
EmptySessions == [h \in Hosts |-> None]
NoFile == [exists |-> FALSE, mode |-> None, sessions |-> EmptySessions]
Files == {NoFile} \cup
         { [exists |-> TRUE, mode |-> m, sessions |-> s] :
             m \in FileModes, s \in [Hosts -> OldTokens \cup {None}] }

\* __init__: state_data = {'sessions': {}} unless the file exists, then its content
LoadStateData(f) == IF f.exists THEN f.sessions ELSE EmptySessions

NoHandle == [made |-> FALSE, idracname |-> None, session_key |-> None]

Ev(op, arg, res) == [op |-> op, arg |-> arg, res |-> res]

ConnInit ==
    /\ file \in Files
    /\ kr \in Passwords \cup {None}
    /\ ctrlPw \in Passwords
    /\ ctrlSessions \in SUBSET (Hosts \X OldTokens)
    /\ state_data = LoadStateData(file)
    /\ startup = state_data
    /\ clientKey = None
    /\ pc = "idle"
    /\ hostname = None
    /\ sessionkey = None
    /\ pw = None
    /\ good_keyring = FALSE
    /\ result = NoHandle
    /\ err = None
    /\ log = <<>>
    /\ nAttempts = 0
    /\ nConnects = 0
    /\ nLogins = 0
    /\ file0 = file
    /\ kr0 = kr

(***************************************************************************)
(* IdracAccessor.connect, one action per call it makes.                    *)
(***************************************************************************)
Record(e) == log' = Append(log, e)

\* connect ends by raising exception e
Raise(e) ==
    /\ pc' = "failed"
    /\ err' = e

\* line 436: the login branch is taken when no session key was resolved
AfterOpen(key) == IF key = None THEN "kr_get" ELSE "handle"

\* lines 426-430: entry of connect; sessionkey = None
Connect(h) ==
    /\ pc \in {"idle", "done", "failed"}
    /\ nConnects < MaxConnects
    /\ nConnects' = nConnects + 1
    /\ hostname' = h
    /\ sessionkey' = None
    /\ pw' = None
    /\ good_keyring' = FALSE
    /\ result' = NoHandle
    /\ err' = None
    /\ log' = <<>>
    /\ nAttempts' = 0
    /\ file0' = file
    /\ kr0' = kr
    /\ pc' = "open"
    /\ UNCHANGED <<file, kr, ctrlPw, ctrlSessions, state_data, clientKey, nLogins, startup, notConn>>

\* lines 431-434: redfish.redfish_client(url, sessionkey=sessionkey)
OpenClient ==
    /\ pc = "open"
    /\ \E out \in {"ok", "unreachable"} :
         /\ Record(Ev("open", sessionkey, out))
         /\ IF out = "ok"
              THEN /\ clientKey' = sessionkey
                   /\ pc' = AfterOpen(sessionkey)
              ELSE /\ clientKey' = clientKey
                   /\ pc' = "retry"
    /\ UNCHANGED <<file, kr, ctrlPw, ctrlSessions, state_data, hostname, sessionkey, pw,
                   good_keyring, result, err, nAttempts, nConnects, nLogins, file0, kr0,
                   startup, notConn>>

\* a retry that swallows the second failure and goes on to the login branch
OpenRetry_Swallow ==
    /\ pc = "retry"
    /\ sessionkey' = None
    /\ \E out \in {"ok", "unreachable"} :
         /\ Record(Ev("open", None, out))
         /\ clientKey' = None
         /\ pc' = AfterOpen(None)
         /\ err' = err
    /\ UNCHANGED <<file, kr, ctrlPw, ctrlSessions, state_data, hostname, pw,
                   good_keyring, result, nAttempts, nConnects, nLogins, file0, kr0,
                   startup, notConn>>

\* line 435: except ServerDownOrUnreachableError: one more redfish_client call with
\* sessionkey := None; its own ServerDownOrUnreachableError leaves connect
OpenRetry ==
    /\ pc = "retry"
    /\ sessionkey' = None
    /\ \E out \in {"ok", "unreachable"} :
         /\ Record(Ev("open", None, out))
         /\ IF out = "ok"
              THEN /\ clientKey' = None
                   /\ pc' = AfterOpen(None)
                   /\ err' = err
              ELSE /\ clientKey' = clientKey
                   /\ Raise("ServerDownOrUnreachableError")
    /\ UNCHANGED <<file, kr, ctrlPw, ctrlSessions, state_data, hostname, pw,
                   good_keyring, result, nAttempts, nConnects, nLogins, file0, kr0,
                   startup, notConn>>

\* a keyring check that never trusts the stored password
GoodKeyring_Never(v) == FALSE

\* line 440: good_keyring = pw is not None
GoodKeyring(v) == v /= None

\* lines 437-446: pw = keyring.get_password('idrac', login_account); KeyringLocked
\* leaves pw None and good_keyring False; the provider is asked when not good_keyring
KeyringGet ==
    /\ pc = "kr_get"
    /\ \E locked \in BOOLEAN :
         IF locked
           THEN /\ Record(Ev("kr_get", None, "locked"))
                /\ pw' = None
                /\ good_keyring' = FALSE
                /\ pc' = "prompt0"
           ELSE /\ Record(Ev("kr_get", None, IF kr = None THEN "absent" ELSE "found"))
                /\ pw' = kr
                /\ good_keyring' = GoodKeyring(kr)
                /\ pc' = IF GoodKeyring(kr) THEN "login" ELSE "prompt0"
    /\ UNCHANGED <<file, kr, ctrlPw, ctrlSessions, state_data, clientKey, hostname,
                   sessionkey, result, err, nAttempts, nConnects, nLogins, file0, kr0,
                   startup, notConn>>

\* a provider call whose answer is dropped
AskProvider_Dropped ==
    \E out \in Passwords \cup {ProviderFails} :
         /\ Record(Ev("prompt", None, out))
         /\ pw' = pw
         /\ IF out = ProviderFails
              THEN Raise("ProviderError")
              ELSE /\ pc' = "login"
                   /\ err' = err

\* pw = self.password_fn(): the provider produces a password or raises
AskProvider ==
    \E out \in Passwords \cup {ProviderFails} :
         /\ Record(Ev("prompt", None, out))
         /\ IF out = ProviderFails
              THEN /\ pw' = pw
                   /\ Raise("ProviderError")
              ELSE /\ pw' = out
                   /\ pc' = "login"
                   /\ err' = err

\* line 446: the provider call before the first login attempt
PromptFirst ==
    /\ pc = "prompt0"
    /\ AskProvider
    /\ UNCHANGED <<file, kr, ctrlPw, ctrlSessions, state_data, clientKey, hostname,
                   sessionkey, good_keyring, result, nAttempts, nConnects, nLogins,
                   file0, kr0, startup, notConn>>

\* what redfish_client.login can do with password p: create a session, raise
\* InvalidCredentialsError with 401 in its text, raise InvalidCredentialsError
\* without it, or raise anything else
LoginOutcomes(p) ==
    IF p = ctrlPw THEN {"ok", "ice_other", "error"}
                  ELSE {"401", "ice_other", "error"}

\* a login loop left for the writes after a 401
Login_SavesRejected ==
    /\ pc = "login"
    /\ nAttempts < MaxAttempts
    /\ nAttempts' = nAttempts + 1
    /\ \E out \in LoginOutcomes(pw) :
         /\ Record(Ev("login", pw, out))
         /\ CASE out = "ok" ->
                   /\ nLogins < Len(FreshTokens)
                   /\ nLogins' = nLogins + 1
                   /\ clientKey' = FreshTokens[nLogins + 1]
                   /\ ctrlSessions' = ctrlSessions \cup {<<hostname, FreshTokens[nLogins + 1]>>}
                   /\ pc' = "write_file"
                   /\ err' = err
              [] out = "401" ->
                   /\ pc' = "write_file"
                   /\ UNCHANGED <<nLogins, clientKey, ctrlSessions, err>>
              [] out = "ice_other" ->
                   /\ pc' = "login"
                   /\ UNCHANGED <<nLogins, clientKey, ctrlSessions, err>>
              [] out = "error" ->
                   /\ Raise("LoginError")
                   /\ UNCHANGED <<nLogins, clientKey, ctrlSessions>>
    /\ UNCHANGED <<file, kr, ctrlPw, state_data, hostname, sessionkey, pw, good_keyring,
                   result, nConnects, file0, kr0, startup, notConn>>

\* lines 416-423: one turn of _login's while True up to the except clause
Login ==
    /\ pc = "login"
    /\ nAttempts < MaxAttempts
    /\ nAttempts' = nAttempts + 1
    /\ \E out \in LoginOutcomes(pw) :
         /\ Record(Ev("login", pw, out))
         /\ CASE out = "ok" ->
                   /\ nLogins < Len(FreshTokens)
                   /\ nLogins' = nLogins + 1
                   /\ clientKey' = FreshTokens[nLogins + 1]
                   /\ ctrlSessions' = ctrlSessions \cup {<<hostname, FreshTokens[nLogins + 1]>>}
                   /\ pc' = "write_file"
                   /\ err' = err
              [] out = "401" ->
                   /\ pc' = "prompt"
                   /\ UNCHANGED <<nLogins, clientKey, ctrlSessions, err>>
              [] out = "ice_other" ->
                   /\ pc' = "login"
                   /\ UNCHANGED <<nLogins, clientKey, ctrlSessions, err>>
              [] out = "error" ->
                   /\ Raise("LoginError")
                   /\ UNCHANGED <<nLogins, clientKey, ctrlSessions>>
    /\ UNCHANGED <<file, kr, ctrlPw, state_data, hostname, sessionkey, pw, good_keyring,
                   result, nConnects, file0, kr0, startup, notConn>>

\* line 424: pw = self.password_fn() after a 401
PromptRetry ==
    /\ pc = "prompt"
    /\ AskProvider
    /\ UNCHANGED <<file, kr, ctrlPw, ctrlSessions, state_data, clientKey, hostname,
                   sessionkey, good_keyring, result, nAttempts, nConnects, nLogins,
                   file0, kr0, startup, notConn>>

\* os.open(name, flags, mode=0o600): the mode is given to a file that is created
ModeAfterOpen(f) == IF f.exists THEN f.mode ELSE "0600"

\* lines 449-450: json.dump(self.state_data, f) into the session cache file
WriteFile ==
    /\ pc = "write_file"
    /\ Record(Ev("write_file", None, "ok"))
    /\ file' = [exists |-> TRUE, mode |-> ModeAfterOpen(file), sessions |-> state_data]
    /\ pc' = "kr_set"
    /\ UNCHANGED <<kr, ctrlPw, ctrlSessions, state_data, clientKey, hostname, sessionkey,
                   pw, good_keyring, result, err, nAttempts, nConnects, nLogins, file0,
                   kr0, startup, notConn>>

\* a locked keyring write that leaves connect
KeyringSet_Abort ==
    /\ pc = "kr_set"
    /\ IF good_keyring
         THEN /\ pc' = "handle"
              /\ UNCHANGED <<kr, log, err>>
         ELSE \E locked \in BOOLEAN :
                IF locked
                  THEN /\ Record(Ev("kr_set", pw, "locked"))
                       /\ kr' = kr
                       /\ Raise("KeyringLocked")
                  ELSE /\ Record(Ev("kr_set", pw, "ok"))
                       /\ kr' = pw
                       /\ pc' = "handle"
                       /\ err' = err
    /\ UNCHANGED <<file, ctrlPw, ctrlSessions, state_data, clientKey, hostname,
                   sessionkey, pw, good_keyring, result, nAttempts, nConnects,
                   nLogins, file0, kr0, startup, notConn>>

\* lines 451-456: keyring.set_password when not good_keyring; KeyringLocked is passed
KeyringSet ==
    /\ pc = "kr_set"
    /\ IF good_keyring
         THEN UNCHANGED <<kr, log>>
         ELSE \E locked \in BOOLEAN :
                IF locked
                  THEN /\ Record(Ev("kr_set", pw, "locked"))
                       /\ kr' = kr
                  ELSE /\ Record(Ev("kr_set", pw, "ok"))
                       /\ kr' = pw
    /\ pc' = "handle"
    /\ UNCHANGED <<file, ctrlPw, ctrlSessions, state_data, clientKey, hostname,
                   sessionkey, pw, good_keyring, result, err, nAttempts, nConnects,
                   nLogins, file0, kr0, startup, notConn>>

\* line 457 and IDrac.__init__ (lines 66-75): the manager collection is queried and
\* must hold 'Members'; the handle keeps sessionkey as session_key
MakeHandle ==
    /\ pc = "handle"
    /\ \E mq \in {"members", "no_members"} :
         /\ Record(Ev("managers", None, mq))
         /\ IF mq = "members"
              THEN /\ result' = [made |-> TRUE, idracname |-> hostname,
                                 session_key |-> sessionkey]
                   /\ pc' = "done"
                   /\ err' = err
              ELSE /\ result' = result
                   /\ Raise("KeyError")
    /\ UNCHANGED <<file, kr, ctrlPw, ctrlSessions, state_data, clientKey, hostname,
                   sessionkey, pw, good_keyring, nAttempts, nConnects, nLogins, file0,
                   kr0, startup, notConn>>

(***************************************************************************)
(* The command executor: IDrac._read_reply and IDrac._message.             *)
(***************************************************************************)
\* longest task-location header the model draws
MaxLocLen == 5

Digits == <<"0", "1", "2", "3", "4", "5", "6", "7", "8", "9">>
IsDigit(c) == \E i \in 1..Len(Digits) : Digits[i] = c
DigitVal(c) == (CHOOSE i \in 1..Len(Digits) : Digits[i] = c) - 1
\* the characters headers are drawn from
Alphabet == {"T", "_", "4", "8"}
Strings(n) == UNION { [1..k -> Alphabet] : k \in 0..n }

\* str.split('_'): the pieces between the separators, empty pieces kept
RECURSIVE Split(_)
Split(s) ==
    IF s = <<>> THEN << <<>> >>
    ELSE LET rest == Split(Tail(s))
         IN  IF Head(s) = "_"
               THEN << <<>> >> \o rest
               ELSE << <<Head(s)>> \o Head(rest) >> \o Tail(rest)

\* int(jstr) accepts a non-empty run of decimal digits (of the characters drawn)
IntParses(s) == s /= <<>> /\ \A i \in 1..Len(s) : IsDigit(s[i])
RECURSIVE IntOf(_)
IntOf(s) ==
    IF s = <<>> THEN 0
    ELSE 10 * IntOf(SubSeq(s, 1, Len(s) - 1)) + DigitVal(s[Len(s)])

\* JSON values as json.loads gives them
JObj(f) == [t |-> "obj", m |-> f]
JArr(q) == [t |-> "arr", m |-> q]
JStr(x) == [t |-> "str", m |-> x]
JInvalid == [t |-> "invalid", m |-> <<>>]
KStr(k) == [kt |-> "str", k |-> k]
KInt(k) == [kt |-> "int", k |-> k]

\* the response bodies drawn: the text and what json.loads makes of it
Bodies == <<
    [text |-> "",                 json |-> JInvalid],
    [text |-> "<html>",           json |-> JInvalid],
    [text |-> "[]",               json |-> JArr(<<>>)],
    [text |-> "{}",               json |-> JObj(<<>>)],
    [text |-> "{error:'x'}",      json |-> JObj("error" :> JStr("x"))],
    [text |-> "{error:{}}",       json |-> JObj("error" :> JObj(<<>>))],
    [text |-> "{error:{ext:[]}}",
     json |-> JObj("error" :> JObj("@Message.ExtendedInfo" :> JArr(<<>>)))],
    [text |-> "{error:{ext:{}}}",
     json |-> JObj("error" :> JObj("@Message.ExtendedInfo" :> JObj(<<>>)))],
    [text |-> "{error:{ext:[{}]}}",
     json |-> JObj("error" :> JObj("@Message.ExtendedInfo" :> JArr(<< JObj(<<>>) >>)))],
    [text |-> "{error:{ext:[{Message:'m1'}]}}",
     json |-> JObj("error" :> JObj("@Message.ExtendedInfo" :>
                     JArr(<< JObj("Message" :> JStr("m1")) >>)))] >>

Ok(v) == [exc |-> None, v |-> v]
Exc(e) == [exc |-> e, v |-> JInvalid]

\* Python's v[key]
GetItem(v, key) ==
    CASE v.t = "obj" ->
           IF key.kt = "str" /\ key.k \in DOMAIN v.m THEN Ok(v.m[key.k])
           ELSE Exc("KeyError")
      [] v.t = "arr" ->
           IF key.kt /= "int" THEN Exc("TypeError")
           ELSE IF key.k + 1 \in DOMAIN v.m THEN Ok(v.m[key.k + 1])
           ELSE Exc("IndexError")
      [] OTHER -> Exc("TypeError")

\* a subscript applied to the outcome of the one before it
Sub(r, key) == IF r.exc /= None THEN r ELSE GetItem(r.v, key)

Returned(v) == [raised |-> None, value |-> v]
Raised(e) == [raised |-> e, value |-> None]

\* _message: json.loads outside the try; reply['error']['@Message.ExtendedInfo'][0]
\* ['Message'] inside it; except KeyError returns reply_text
Message(b) ==
    IF Bodies[b].json.t = "invalid" THEN Raised("JSONDecodeError")
    ELSE LET extended ==
               Sub(Sub(Sub(Sub(Ok(Bodies[b].json), KStr("error")),
                           KStr("@Message.ExtendedInfo")), KInt(0)), KStr("Message"))
         IN  CASE extended.exc = None -> Returned(extended.v.m)
               [] extended.exc = "KeyError" -> Returned(Bodies[b].text)
               [] OTHER -> Raised(extended.exc)

\* CommandReply; job is <<n>> for an integer n and <<>> for None
CommandReply(succeeded, msg, results, job) ==
    [succeeded |-> succeeded, msg |-> msg, results |-> results, job |-> job]
NoReply == CommandReply(FALSE, None, None, <<>>)

NoLocation == [present |-> FALSE, text |-> <<>>]
\* if r.task_location: neither None nor the empty string
Truthy(loc) == loc.present /\ loc.text /= <<>>

\* _read_reply
ReadReplyOf(r, expected, good) ==
    IF r.status = expected
      THEN IF Truthy(r.task_location)
             THEN LET parts == Split(r.task_location.text)
                  IN  IF Len(parts) /= 2 \/ ~IntParses(parts[2])
                        THEN [raised |-> "ValueError", value |-> NoReply]
                        ELSE [raised |-> None,
                              value |-> CommandReply(TRUE, good, None, <<IntOf(parts[2])>>)]
             ELSE [raised |-> None, value |-> CommandReply(TRUE, good, None, <<0>>)]
      ELSE LET msg == Message(r.body)
           IN  IF msg.raised /= None
                 THEN [raised |-> msg.raised, value |-> NoReply]
                 ELSE [raised |-> None,
                       value |-> CommandReply(FALSE, msg.value, None, <<>>)]

Statuses == {202, 204, 400}
Responses ==
    { [status |-> st, task_location |-> loc, body |-> b] :
        st \in Statuses,
        loc \in {NoLocation} \cup { [present |-> TRUE, text |-> t] : t \in Strings(MaxLocLen) },
        b \in 1..Len(Bodies) }
NoResponse == [status |-> 0, task_location |-> NoLocation, body |-> 1]

\* the session broker at rest, for the specifications that do not run it
ConnOff ==
    /\ file = NoFile
    /\ kr = None
    /\ ctrlPw = "pwA"
    /\ ctrlSessions = {}
    /\ state_data = EmptySessions
    /\ startup = EmptySessions
    /\ clientKey = None
    /\ pc = "off"
    /\ hostname = None
    /\ sessionkey = None
    /\ pw = None
    /\ good_keyring = FALSE
    /\ result = NoHandle
    /\ err = None
    /\ log = <<>>
    /\ nAttempts = 0
    /\ nConnects = 0
    /\ nLogins = 0
    /\ file0 = NoFile
    /\ kr0 = None

\* the command executor at rest
ReplyOff ==
    /\ rpc = "off"
    /\ expected_status = 0
    /\ good_message = None
    /\ resp = NoResponse
    /\ reply = [raised |-> None, value |-> NoReply]

\* a command about to be issued: _power expects 204 (line 149), next_boot_virtual 202
\* (line 232)
ReplyInit ==
    /\ rpc = "post"
    /\ \E call \in {<<204, "Shutdown">>, <<202, "Boot set to DVD">>} :
         /\ expected_status = call[1]
         /\ good_message = call[2]
    /\ resp = NoResponse
    /\ reply = [raised |-> None, value |-> NoReply]

\* r = self.redfish_client.post(url, body=payload): the controller answers
Post ==
    /\ rpc = "post"
    /\ resp' \in Responses
    /\ rpc' = "read"
    /\ UNCHANGED <<expected_status, good_message, reply, notReply>>

\* return self._read_reply(r, expected_status, good_message)
ReadReply ==
    /\ rpc = "read"
    /\ reply' = ReadReplyOf(resp, expected_status, good_message)
    /\ rpc' = IF reply'.raised = None THEN "returned" ELSE "raised"
    /\ UNCHANGED <<expected_status, good_message, resp, notReply>>

ReplyNext ==
    \/ Post
    \/ ReadReply

(***************************************************************************)
(* The parts a specification does not run, at rest.                        *)
(***************************************************************************)
PowerAtRest ==
    /\ ppc = "off"
    /\ power = None
    /\ method = None
    /\ posts = <<>>

NoJobStatus == [raised |-> None, status |-> 0, data |-> None]

WaitAtRest ==
    /\ wpc = "off"
    /\ job_id = 0
    /\ allow404 = FALSE
    /\ polls = <<>>
    /\ sleeps = 0
    /\ wres = NoJobStatus
    /\ task = [status |-> 0, data |-> None]

NoCall == [op |-> None, slot |-> 0, name |-> None, password |-> None, role |-> None]
\* what an account operation gave: the exception's message or None, the slot
\* returned (<<n>>, or <<>> for none), the accounts returned
NoResult == [raised |-> None, slot |-> <<>>, accounts |-> <<>>]

AcctAtRest ==
    /\ apc = "off"
    /\ members = <<>>
    /\ listed = <<>>
    /\ acall = NoCall
    /\ aresult = NoResult
    /\ patches = <<>>
    /\ answered = <<>>
    /\ queries = 0
    /\ warned = 0
    /\ ncalls = 0

NoVirtReply == [raised |-> None, succeeded |-> FALSE, msg |-> None, results |-> <<>>]
NoVirtResponse == [status |-> 0, members |-> 0, body |-> 1]

VirtAtRest ==
    /\ vpc = "off"
    /\ vcoll = NoVirtResponse
    /\ devices = <<>>
    /\ vgets = <<>>
    /\ vresult = <<>>
    /\ vreply = NoVirtReply

DriverAtRest ==
    /\ dpc = "off"
    /\ script = None
    /\ mode = None
    /\ idracs = <<>>
    /\ attempted = <<>>
    /\ reported = <<>>

NoProc == [pc |-> "off", state_data |-> EmptySessions, host |-> None, token |-> None]

TwoAtRest ==
    /\ cache = [exists |-> FALSE, sessions |-> EmptySessions, writer |-> 0]
    /\ procs = <<NoProc, NoProc>>

ManageAtRest ==
    /\ mpc = "off"
    /\ option = None
    /\ waited = <<>>

(***************************************************************************)
(* Power transitions: IDrac._power, turn_off, force_off, turn_on.          *)
(***************************************************************************)
\* PowerState values of the system resource
PowerStates == {"On", "Off", "PoweringOn"}

PowerInit ==
    /\ ppc = "idle"
    /\ power \in PowerStates
    /\ method = None
    /\ posts = <<>>

\* _power(state, command): one POST of {'ResetType': state} to the reset action,
\* the answer read by _read_reply with expected status 204
Power(state, command) ==
    /\ posts' = Append(posts, state)
    /\ expected_status' = 204
    /\ good_message' = command
    /\ \E r \in Responses :
         /\ resp' = r
         /\ reply' = ReadReplyOf(r, 204, command)

\* return CommandReply(True, msg): results and job keep their default, None
NoOpReply(msg) ==
    /\ reply' = [raised |-> None, value |-> CommandReply(TRUE, msg, None, <<>>)]
    /\ UNCHANGED <<posts, expected_status, good_message, resp>>

\* a transition of the given name has run
Called(m) ==
    /\ ppc = "idle"
    /\ ppc' = "done"
    /\ method' = m
    /\ UNCHANGED <<power, rpc, connVars, waitVars, acctVars, virtVars, driverVars, twoVars, manageVars>>

\* a shutdown posted whatever the power state
turn_off_Unchecked ==
    /\ Called("turn_off")
    /\ Power("GracefulShutdown", "Shutdown")

\* lines 151-155
turn_off ==
    /\ Called("turn_off")
    /\ IF power = "On" THEN Power("GracefulShutdown", "Shutdown")
                       ELSE NoOpReply("Already off")

\* lines 157-161
force_off ==
    /\ Called("force_off")
    /\ IF power = "On" THEN Power("ForceOff", "Force shutdown")
                       ELSE NoOpReply("Already off")

\* a power-on posted unless the system is on
turn_on_UnlessOn ==
    /\ Called("turn_on")
    /\ IF power /= "On" THEN Power("On", "Turn on")
                        ELSE NoOpReply("Already on")

\* lines 163-167
turn_on ==
    /\ Called("turn_on")
    /\ IF power = "Off" THEN Power("On", "Turn on")
                        ELSE NoOpReply("Already on")

PowerNext ==
    \/ turn_off
    \/ force_off
    \/ turn_on

(***************************************************************************)
(* Job polling: IDrac.job_status, IDrac.wait_for.                          *)
(***************************************************************************)
MaxPolls == 3

JobIds == {0, 482}
Payloads == {"d1", "d2"}
\* what the task resource answers once the task is no longer in progress
TerminalStatuses == {200, 404, 500}
Running(t) == t.status = 202

\* JobStatus(r): the status code and the payload of the response
JobStatus(r) == [status |-> r.status, data |-> r.data]

\* job_status: the decision on the polled response
job_status_Any404(r, allow) ==
    LET jstat == JobStatus(r)
    IN  IF jstat.status \in {200, 202, 404}
          THEN [raised |-> None, status |-> jstat.status, data |-> jstat.data]
          ELSE [raised |-> "ValueError", status |-> jstat.status, data |-> jstat.data]

job_status(r, allow) ==
    LET jstat == JobStatus(r)
    IN  IF jstat.status \in {200, 202}
          THEN [raised |-> None, status |-> jstat.status, data |-> jstat.data]
        ELSE IF allow /\ jstat.status = 404
          THEN [raised |-> None, status |-> jstat.status, data |-> jstat.data]
          ELSE [raised |-> "ValueError", status |-> jstat.status, data |-> jstat.data]

\* the test of wait_for's while
InProgress_Not404(jstat) == jstat.status /= 404
InProgress(jstat) == jstat.status = 202

WaitInit ==
    /\ wpc = "idle"
    /\ job_id = 0
    /\ allow404 = FALSE
    /\ polls = <<>>
    /\ sleeps = 0
    /\ wres = NoJobStatus
    /\ \E d \in Payloads : task = [status |-> 202, data |-> d]

notWait == <<connVars, replyVars, powerVars, acctVars, virtVars, driverVars, twoVars, manageVars>>

\* the controller: the running task updates its payload, or leaves the running state
TaskProgress ==
    /\ Running(task)
    /\ \E d \in Payloads \ {task.data} : task' = [task EXCEPT !.data = d]
    /\ UNCHANGED <<wpc, job_id, allow404, polls, sleeps, wres, notWait>>

TaskEnds ==
    /\ Running(task)
    /\ \E st \in TerminalStatuses : task' = [task EXCEPT !.status = st]
    /\ UNCHANGED <<wpc, job_id, allow404, polls, sleeps, wres, notWait>>

\* the call
wait_for ==
    /\ wpc = "idle"
    /\ \E j \in JobIds, a \in BOOLEAN : job_id' = j /\ allow404' = a
    /\ wpc' = "poll"
    /\ UNCHANGED <<polls, sleeps, wres, task, notWait>>

\* one evaluation of the while condition: the GET of job_status, its decision, and
\* the test of the status
Poll ==
    /\ wpc = "poll"
    /\ Running(task) => Len(polls) < MaxPolls
    /\ LET r == [job |-> job_id, status |-> task.status, data |-> task.data]
           jstat == job_status(r, allow404)
       IN  /\ polls' = Append(polls, r)
           /\ IF jstat.raised /= None
                THEN wpc' = "raised" /\ wres' = jstat
              ELSE IF InProgress(jstat)
                THEN wpc' = "sleep" /\ UNCHANGED wres
                ELSE wpc' = "returned" /\ wres' = jstat
    /\ UNCHANGED <<job_id, allow404, sleeps, task, notWait>>

\* a sleep that ends the wait
Sleep_TimesOut ==
    /\ wpc = "sleep"
    /\ sleeps' = sleeps + 1
    /\ wpc' = IF sleeps + 1 < MaxPolls THEN "poll" ELSE "raised"
    /\ UNCHANGED <<job_id, allow404, polls, wres, task, notWait>>

\* time.sleep(.1), then the loop's next iteration
Sleep ==
    /\ wpc = "sleep"
    /\ sleeps' = sleeps + 1
    /\ wpc' = "poll"
    /\ UNCHANGED <<job_id, allow404, polls, wres, task, notWait>>

WaitNext ==
    \/ TaskProgress
    \/ TaskEnds
    \/ wait_for
    \/ Poll
    \/ Sleep

(***************************************************************************)
(* Accounts: IDrac.accounts, unused_account_slot, create_account.          *)
(***************************************************************************)
MaxMembers == 2

ROLES == {"Administrator", "Operator", "ReadOnly", "None"}

\* Members of the account collection: Id is a string of digits
SlotTexts == { <<"0">>, <<"1">>, <<"2">>, <<"3">> }
UserNames == {"", "u1"}
\* the Description field: the marker, another text, or None for a member without it
Descriptions == {"User Account", "Other", None}
Member ==
    [Id : SlotTexts, Enabled : BOOLEAN, UserName : UserNames,
     RoleId : {"Operator"}, Password : {"pw0"}, Description : Descriptions]
Collections ==
    { ms \in UNION { [1..k -> Member] : k \in 0..MaxMembers } :
        \A i, j \in 1..Len(ms) : ms[i].Id = ms[j].Id => i = j }

\* (d := m.get('Description', None)) is not None and d != 'User Account'
UnexpectedType_NotMarker(m) == m.Description /= "User Account"
UnexpectedType(m) == m.Description /= None /\ m.Description /= "User Account"

\* Account(int(m['Id']), m['Enabled'], m['UserName'], m['RoleId'])
Account(m) ==
    [id |-> IntOf(m.Id), enabled |-> m.Enabled, name |-> m.UserName, role |-> m.RoleId]

\* list(self.accounts()): the generator run to its end
AccountList(ms) ==
    IF \E i \in 1..Len(ms) : UnexpectedType(ms[i])
      THEN [raised |-> "Unexpected type", slot |-> <<>>, accounts |-> <<>>]
      ELSE [raised |-> None, slot |-> <<>>, accounts |-> [i \in 1..Len(ms) |-> Account(ms[i])]]

\* the test of unused_account_slot
Unused_NotReserved(current) == ~current.enabled /\ current.name = ""
Unused(current) == current.id > 1 /\ ~current.enabled /\ current.name = ""

\* for current in self.accounts(): the generator is run only as far as the return
RECURSIVE ScanLast(_, _, _)
ScanLast(ms, i, found) ==
    IF i > Len(ms)
      THEN IF found = <<>>
             THEN [raised |-> "All account slots in use", slot |-> <<>>, accounts |-> <<>>]
             ELSE [raised |-> None, slot |-> found, accounts |-> <<>>]
    ELSE IF UnexpectedType(ms[i])
      THEN [raised |-> "Unexpected type", slot |-> <<>>, accounts |-> <<>>]
    ELSE IF Unused(Account(ms[i]))
      THEN ScanLast(ms, i + 1, << Account(ms[i]).id >>)
      ELSE ScanLast(ms, i + 1, found)
UnusedSlot_Last(ms, i) == ScanLast(ms, i, <<>>)

RECURSIVE UnusedSlot(_, _)
UnusedSlot(ms, i) ==
    IF i > Len(ms)
      THEN [raised |-> "All account slots in use", slot |-> <<>>, accounts |-> <<>>]
    ELSE IF UnexpectedType(ms[i])
      THEN [raised |-> "Unexpected type", slot |-> <<>>, accounts |-> <<>>]
    ELSE IF Unused(Account(ms[i]))
      THEN [raised |-> None, slot |-> << Account(ms[i]).id >>, accounts |-> <<>>]
      ELSE UnusedSlot(ms, i + 1)

AcctInit ==
    /\ apc = "idle"
    /\ members \in Collections
    /\ listed = <<>>
    /\ acall = NoCall
    /\ aresult = NoResult
    /\ patches = <<>>
    /\ answered = <<>>
    /\ queries = 0
    /\ warned = 0
    /\ ncalls = 0

notAcct == <<connVars, replyVars, powerVars, waitVars, virtVars, driverVars, twoVars, manageVars>>

\* one operation has run, answered with the collection as it was
AcctCalled(c) ==
    /\ apc = "idle"
    /\ apc' = "done"
    /\ acall' = c
    /\ UNCHANGED <<ncalls, notAcct>>

\* list(idrac.accounts())
accounts ==
    /\ AcctCalled([NoCall EXCEPT !.op = "accounts"])
    /\ listed' = members
    /\ queries' = queries + 1
    /\ aresult' = AccountList(members)
    /\ UNCHANGED <<members, patches, answered, warned>>

unused_account_slot ==
    /\ AcctCalled([NoCall EXCEPT !.op = "unused_account_slot"])
    /\ listed' = members
    /\ queries' = queries + 1
    /\ aresult' = UnusedSlot(members, 1)
    /\ UNCHANGED <<members, patches, answered, warned>>

\* the arguments create_account is called with
Slots == {1, 2, 3}
Names == {"u1", "u2"}
RoleArgs == {"Operator", "Root"}
PatchStatuses == {200, 400}

\* the outcome of create_account's checks: the exception's message or None, whether
\* the collection was queried, whether a warning is logged, whether the PATCH is sent
Outcome4(e, q, w, p) == [raised |-> e, queried |-> q, warns |-> w, patch |-> p]

\* the slot taken whether or not it is in use
Checks_Overwrite(ms, slot, name, role) ==
    IF role \notin ROLES THEN Outcome4("Role", FALSE, FALSE, FALSE)
    ELSE LET existing == AccountList(ms)
         IN  IF existing.raised /= None THEN Outcome4(existing.raised, TRUE, FALSE, FALSE)
             ELSE IF \A i \in 1..Len(existing.accounts) : existing.accounts[i].id /= slot
               THEN Outcome4("slot not found", TRUE, FALSE, FALSE)
             ELSE Outcome4(None, TRUE, FALSE, TRUE)

\* the name not looked for among the existing accounts
Checks_AnyName(ms, slot, name, role) ==
    IF role \notin ROLES THEN Outcome4("Role", FALSE, FALSE, FALSE)
    ELSE LET existing == AccountList(ms)
         IN  IF existing.raised /= None THEN Outcome4(existing.raised, TRUE, FALSE, FALSE)
             ELSE IF \A i \in 1..Len(existing.accounts) : existing.accounts[i].id /= slot
               THEN Outcome4("slot not found", TRUE, FALSE, FALSE)
             ELSE IF \E i \in 1..Len(existing.accounts) :
                        /\ existing.accounts[i].id = slot
                        /\ (existing.accounts[i].enabled \/ existing.accounts[i].name /= "")
               THEN Outcome4("Account in use", TRUE, FALSE, FALSE)
               ELSE Outcome4(None, TRUE, FALSE, TRUE)

\* lines 298-312
Checks(ms, slot, name, role) ==
    IF role \notin ROLES THEN Outcome4("Role", FALSE, FALSE, FALSE)
    ELSE LET existing == AccountList(ms)
         IN  IF existing.raised /= None THEN Outcome4(existing.raised, TRUE, FALSE, FALSE)
             ELSE IF \E i \in 1..Len(existing.accounts) : existing.accounts[i].name = name
               THEN Outcome4(None, TRUE, TRUE, FALSE)
             ELSE IF \A i \in 1..Len(existing.accounts) : existing.accounts[i].id /= slot
               THEN Outcome4("slot not found", TRUE, FALSE, FALSE)
             ELSE LET current ==
                        existing.accounts[CHOOSE i \in 1..Len(existing.accounts) :
                                            /\ existing.accounts[i].id = slot
                                            /\ \A j \in 1..(i - 1) :
                                                 existing.accounts[j].id /= slot]
                  IN  IF current.enabled \/ current.name /= ""
                        THEN Outcome4("Account in use", TRUE, FALSE, FALSE)
                        ELSE Outcome4(None, TRUE, FALSE, TRUE)

\* the payload of the PATCH
Payload(name, password, role) ==
    [UserName |-> name, Password |-> password, RoleId |-> role, Enabled |-> TRUE]

\* the controller's record after a PATCH it accepted: the fields of the payload
\* replaced, the others kept
Patched(m, payload) ==
    [f \in DOMAIN m |-> IF f \in DOMAIN payload THEN payload[f] ELSE m[f]]

\* the collection after the controller answered the PATCH of a slot with st
AfterPatch(ms, slot, payload, st) ==
    IF st = 200
      THEN [i \in 1..Len(ms) |->
              IF IntOf(ms[i].Id) = slot THEN Patched(ms[i], payload) ELSE ms[i]]
      ELSE ms

\* a PATCH sent again when the answer is not 200
Patch_Retry(slot, payload) ==
    \E st \in PatchStatuses :
      IF st = 200
        THEN /\ patches' = Append(patches, [slot |-> slot, payload |-> payload])
             /\ answered' = Append(answered, st)
             /\ members' = AfterPatch(members, slot, payload, st)
             /\ UNCHANGED warned
        ELSE \E st2 \in PatchStatuses :
               /\ patches' = patches \o << [slot |-> slot, payload |-> payload],
                                           [slot |-> slot, payload |-> payload] >>
               /\ answered' = answered \o <<st, st2>>
               /\ members' = AfterPatch(members, slot, payload, st2)
               /\ warned' = IF st2 = 200 THEN warned ELSE warned + 1

\* r = self.patch(url, payload), answered by the controller; a status other than
\* 200 is logged as a warning
Patch(slot, payload) ==
    \E st \in PatchStatuses :
      /\ patches' = Append(patches, [slot |-> slot, payload |-> payload])
      /\ answered' = Append(answered, st)
      /\ members' = AfterPatch(members, slot, payload, st)
      /\ warned' = IF st = 200 THEN warned ELSE warned + 1

create_account ==
    \E slot \in Slots, name \in Names, role \in RoleArgs :
      LET c == Checks(members, slot, name, role)
          payload == Payload(name, "pw1", role)
      IN  /\ AcctCalled([op |-> "create_account", slot |-> slot, name |-> name,
                         password |-> "pw1", role |-> role])
          /\ listed' = IF c.queried THEN members ELSE <<>>
          /\ queries' = IF c.queried THEN queries + 1 ELSE queries
          /\ aresult' = [NoResult EXCEPT !.raised = c.raised]
          /\ IF c.patch
               THEN Patch(slot, payload)
               ELSE /\ warned' = IF c.warns THEN warned + 1 ELSE warned
                    /\ UNCHANGED <<members, patches, answered>>

\* the outcome of set_password's lookup: the slot is <<n>> when the PATCH is sent
\* the last listed account of the name
Lookup_Last(ms, name) ==
    LET existing == AccountList(ms)
    IN  IF existing.raised /= None
          THEN [raised |-> existing.raised, warns |-> FALSE, slot |-> <<>>]
        ELSE IF \A i \in 1..Len(existing.accounts) : existing.accounts[i].name /= name
          THEN [raised |-> None, warns |-> TRUE, slot |-> <<>>]
          ELSE LET last == CHOOSE i \in 1..Len(existing.accounts) :
                             /\ existing.accounts[i].name = name
                             /\ \A j \in (i + 1)..Len(existing.accounts) :
                                  existing.accounts[j].name /= name
               IN  [raised |-> None, warns |-> FALSE, slot |-> << existing.accounts[last].id >>]

\* lines 326-331
Lookup(ms, name) ==
    LET existing == AccountList(ms)
    IN  IF existing.raised /= None
          THEN [raised |-> existing.raised, warns |-> FALSE, slot |-> <<>>]
        ELSE IF \A i \in 1..Len(existing.accounts) : existing.accounts[i].name /= name
          THEN [raised |-> None, warns |-> TRUE, slot |-> <<>>]
          ELSE LET first == CHOOSE i \in 1..Len(existing.accounts) :
                              /\ existing.accounts[i].name = name
                              /\ \A j \in 1..(i - 1) : existing.accounts[j].name /= name
               IN  [raised |-> None, warns |-> FALSE, slot |-> << existing.accounts[first].id >>]

set_password ==
    \E name \in Names :
      LET l == Lookup(members, name)
      IN  /\ AcctCalled([op |-> "set_password", slot |-> 0, name |-> name,
                         password |-> "pw2", role |-> None])
          /\ listed' = members
          /\ queries' = queries + 1
          /\ aresult' = [NoResult EXCEPT !.raised = l.raised]
          /\ IF l.slot /= <<>>
               THEN Patch(l.slot[1], [Password |-> "pw2"])
               ELSE /\ warned' = IF l.warns THEN warned + 1 ELSE warned
                    /\ UNCHANGED <<members, patches, answered>>

AcctNext ==
    \/ accounts
    \/ unused_account_slot
    \/ create_account
    \/ set_password

(***************************************************************************)
(* A sequence of account operations on one controller, as successive runs  *)
(* of the account driver make them.                                        *)
(***************************************************************************)
MaxCalls == 2

\* slots 1, 2, 3 listed in order, each enabled or not, named or not
SeqCollections ==
    { ms \in [1..3 -> Member] :
        \A i \in 1..3 : ms[i].Id = << Digits[i + 1] >> /\ ms[i].Description = "User Account" }

AcctSeqInit ==
    /\ apc = "idle"
    /\ members \in SeqCollections
    /\ listed = <<>>
    /\ acall = NoCall
    /\ aresult = NoResult
    /\ patches = <<>>
    /\ answered = <<>>
    /\ queries = 0
    /\ warned = 0
    /\ ncalls = 0

\* the operation has returned or raised; the next one can be called
NextCall ==
    /\ apc = "done"
    /\ ncalls + 1 < MaxCalls
    /\ ncalls' = ncalls + 1
    /\ apc' = "idle"
    /\ UNCHANGED <<members, listed, acall, aresult, patches, answered, queries, warned, notAcct>>

AcctSeqNext ==
    \/ create_account
    \/ set_password
    \/ NextCall

(***************************************************************************)
(* Virtual media listing: IDrac.get_virtual.                               *)
(***************************************************************************)
MaxDevices == 2

DeviceNames == <<"CD", "RemovableDisk", "Floppy">>
ImageNames == {None, "a.iso"}
ErrorStatuses == {404, 500}

\* the answers to the collection query: 200 with the members, or an error
CollectionResponses ==
    { [status |-> 200, members |-> n, body |-> 1] : n \in 0..MaxDevices } \cup
    { [status |-> st, members |-> 0, body |-> b] : st \in ErrorStatuses, b \in 1..Len(Bodies) }

\* the answers to the query of device d: 200 with the device's resource, or an
\* error with one of the bodies
DeviceResponses(d) ==
    { [status |-> 200, body |-> 1,
       rdata |-> << [Id |-> d, Name |-> d, ImageName |-> n, Image |-> n] >>] :
         n \in ImageNames } \cup
    { [status |-> st, body |-> b, rdata |-> <<>>] :
         st \in ErrorStatuses, b \in 1..Len(Bodies) }

\* the keys VirtualMedia.__init__ reads, in its order
VirtualMediaKeys == <<"Id", "Name", "ImageName", "Image">>

\* VirtualMedia(json.loads(r2.text)): the object, or the exception of the parse or
\* of the first key that cannot be read
VirtualMedia(r2) ==
    IF r2.rdata /= <<>>
      THEN [raised |-> None,
            vm |-> << [id |-> r2.rdata[1].Id, device |-> r2.rdata[1].Name,
                       name |-> r2.rdata[1].ImageName, path |-> r2.rdata[1].Image] >>]
    ELSE IF Bodies[r2.body].json.t = "invalid"
      THEN [raised |-> "JSONDecodeError", vm |-> <<>>]
      ELSE LET failing == { k \in 1..Len(VirtualMediaKeys) :
                              GetItem(Bodies[r2.body].json, KStr(VirtualMediaKeys[k])).exc /= None }
               first == CHOOSE k \in failing : \A j \in failing : k <= j
           IN  IF failing = {}
                 THEN [raised |-> None,
                       vm |-> << [id |-> None, device |-> None, name |-> None, path |-> None] >>]
                 ELSE [raised |->
                         GetItem(Bodies[r2.body].json, KStr(VirtualMediaKeys[first])).exc,
                       vm |-> <<>>]

\* self._read_reply(200, "get virtual"): the response is not passed, so the call
\* lacks the argument good_message and raises TypeError
ReadReplyShort == [NoVirtReply EXCEPT !.raised = "TypeError"]

VirtInit ==
    /\ vpc = "idle"
    /\ vcoll = NoVirtResponse
    /\ devices = <<>>
    /\ vgets = <<>>
    /\ vresult = <<>>
    /\ vreply = NoVirtReply

notVirt == <<connVars, replyVars, powerVars, waitVars, acctVars, driverVars, twoVars, manageVars>>

\* lines 201-209 and 219-220: the collection query; with status 200 the device
\* names are read from the members
get_virtual ==
    /\ vpc = "idle"
    /\ \E r \in CollectionResponses :
         /\ vcoll' = r
         /\ IF r.status = 200
              THEN /\ devices' = [i \in 1..r.members |-> DeviceNames[i]]
                   /\ vpc' = "loop"
                   /\ UNCHANGED vreply
              ELSE /\ vreply' = ReadReplyShort
                   /\ vpc' = "raised"
                   /\ UNCHANGED devices
    /\ UNCHANGED <<vgets, vresult, notVirt>>

\* lines 210-217: one turn of the loop over the devices; the status tested is the
\* collection's (r), not the device's (r2)
GetDevice ==
    /\ vpc = "loop"
    /\ Len(vgets) < Len(devices)
    /\ \E r2 \in DeviceResponses(devices[Len(vgets) + 1]) :
         /\ vgets' = Append(vgets, r2)
         /\ IF vcoll.status = 200
              THEN LET made == VirtualMedia(r2)
                   IN  IF made.raised /= None
                         THEN /\ vreply' = [NoVirtReply EXCEPT !.raised = made.raised]
                              /\ vpc' = "raised"
                              /\ UNCHANGED vresult
                         ELSE /\ vresult' = vresult \o made.vm
                              /\ UNCHANGED <<vreply, vpc>>
              ELSE /\ vreply' = ReadReplyShort
                   /\ vpc' = "raised"
                   /\ UNCHANGED vresult
    /\ UNCHANGED <<vcoll, devices, notVirt>>

\* line 218: return CommandReply(True, "Devices", result)
ReturnDevices ==
    /\ vpc = "loop"
    /\ Len(vgets) = Len(devices)
    /\ vreply' = [raised |-> None, succeeded |-> TRUE, msg |-> "Devices", results |-> vresult]
    /\ vpc' = "returned"
    /\ UNCHANGED <<vcoll, devices, vgets, vresult, notVirt>>

VirtNext ==
    \/ get_virtual
    \/ GetDevice
    \/ ReturnDevices

(***************************************************************************)
(* The account driver's loop over the controllers: main of                 *)
(* src/src/scripts/accounts.py and of src/scripts/accounts.py.             *)
(***************************************************************************)
MaxBatch == 2

WithTry == "src/src/scripts/accounts.py"
WithoutTry == "src/scripts/accounts.py"
Scripts == {WithTry, WithoutTry}
\* the operation the arguments ask for; --password exists in the first script only
Modes(sc) == IF sc = WithTry THEN {"accounts", "create", "password"}
                             ELSE {"accounts", "create"}
\* where one iteration can raise: the connect, the listing, the operation asked for
Stages(m) ==
    CASE m = "accounts" -> {"connect", "listing"}
      [] m = "create" -> {"connect", "listing", "create"}
      [] m = "password" -> {"connect", "listing", "set_password"}
\* the body of the loop is inside try ... except Exception
Catches(sc) == sc = WithTry
Batches == UNION { [1..n -> Hosts] : n \in 1..MaxBatch }

DriverInit ==
    /\ dpc = "loop"
    /\ script \in Scripts
    /\ mode \in Modes(script)
    /\ idracs \in Batches
    /\ attempted = <<>>
    /\ reported = <<>>

notDriver == <<connVars, replyVars, powerVars, waitVars, acctVars, virtVars, twoVars, manageVars>>

\* one turn of for idrac in idracs: the body either completes or raises at a stage;
\* the exception is printed by the except clause where there is one, and leaves
\* main where there is none
Iteration ==
    /\ dpc = "loop"
    /\ Len(attempted) < Len(idracs)
    /\ \E raised \in {None} \cup Stages(mode) :
         LET idrac == idracs[Len(attempted) + 1]
         IN  /\ attempted' = Append(attempted, [idrac |-> idrac, raised |-> raised])
             /\ IF raised = None
                  THEN UNCHANGED <<reported, dpc>>
                ELSE IF Catches(script)
                  THEN /\ reported' = Append(reported, [idrac |-> idrac, raised |-> raised])
                       /\ UNCHANGED dpc
                  ELSE /\ dpc' = "crashed"
                       /\ UNCHANGED reported
    /\ UNCHANGED <<script, mode, idracs, notDriver>>

\* the batch is exhausted
LoopEnds ==
    /\ dpc = "loop"
    /\ Len(attempted) = Len(idracs)
    /\ dpc' = "ended"
    /\ UNCHANGED <<script, mode, idracs, attempted, reported, notDriver>>

DriverNext ==
    \/ Iteration
    \/ LoopEnds

(***************************************************************************)
(* Two processes, each with its own IdracAccessor, on one session cache    *)
(* file.                                                                   *)
(***************************************************************************)
Procs == {1, 2}

CacheFiles ==
    { [exists |-> FALSE, sessions |-> EmptySessions, writer |-> 0] } \cup
    { [exists |-> TRUE, sessions |-> ss, writer |-> 0] :
        ss \in [Hosts -> OldTokens \cup {None}] }

TwoInit ==
    /\ cache \in CacheFiles
    /\ procs = [p \in Procs |-> [NoProc EXCEPT !.pc = "new"]]

notTwo == <<connVars, replyVars, powerVars, waitVars, acctVars, virtVars, driverVars,
           manageVars>>

\* the logins accepted so far, over both processes
Logins == Cardinality({ p \in Procs : procs[p].token /= None })

\* IdracAccessor.__init__ (lines 394-401): the file is read if it exists
Start(p) ==
    /\ procs[p].pc = "new"
    /\ procs' = [procs EXCEPT ![p].pc = "started",
                              ![p].state_data = IF cache.exists THEN cache.sessions
                                                                ELSE EmptySessions]
    /\ UNCHANGED <<cache, notTwo>>

\* connect up to the return of _login (lines 426-447): the controller accepts the
\* login and issues a token; state_data is not assigned
LoginAccepted2(p) ==
    /\ procs[p].pc = "started"
    /\ \E h \in Hosts :
         procs' = [procs EXCEPT ![p].pc = "logged_in",
                                ![p].host = h,
                                ![p].token = FreshTokens[Logins + 1]]
    /\ UNCHANGED <<cache, notTwo>>

\* lines 449-450: the file is opened for writing and state_data dumped into it
WriteCache(p) ==
    /\ procs[p].pc = "logged_in"
    /\ cache' = [exists |-> TRUE, sessions |-> procs[p].state_data, writer |-> p]
    /\ procs' = [procs EXCEPT ![p].pc = "written"]
    /\ UNCHANGED notTwo

TwoNext ==
    \/ \E p \in Procs : Start(p)
    \/ \E p \in Procs : LoginAccepted2(p)
    \/ \E p \in Procs : WriteCache(p)

(***************************************************************************)
(* The management driver's boot-order options: main of manage.py, lines    *)
(* 84-91, with IDrac.next_boot_virtual and IDrac.next_boot_pxe.            *)
(***************************************************************************)
ManageInit ==
    /\ mpc = "idle"
    /\ option = None
    /\ waited = <<>>

notManage == <<connVars, powerVars, waitVars, acctVars, virtVars, driverVars, twoVars>>

\* one POST of the system-configuration import action, the answer read by
\* _read_reply with expected status 202
BootOnce(opt, good) ==
    /\ mpc = "idle"
    /\ option' = opt
    /\ expected_status' = 202
    /\ good_message' = good
    /\ \E r \in Responses :
         /\ resp' = r
         /\ reply' = ReadReplyOf(r, 202, good)
    /\ mpc' = IF reply'.raised = None THEN "replied" ELSE "raised"
    /\ UNCHANGED <<rpc, waited, notManage>>

\* manage.py line 85: cr = idrac.next_boot_virtual()
next_boot_virtual == BootOnce("next_boot_virtual", "Boot set to DVD")

\* manage.py line 89: cr = idrac.next_boot_pxe()
next_boot_pxe == BootOnce("pxe_boot", "Boot set to PXE")

\* manage.py lines 86-87 and 90-91: the print, then idrac.wait_for(cr.job) is
\* entered, whatever cr holds
WaitForJob ==
    /\ mpc = "replied"
    /\ waited' = Append(waited, reply.value.job)
    /\ mpc' = "waiting"
    /\ UNCHANGED <<option, replyVars, notManage>>

\* wait_for leaves its loop: the first answer that is not 202 is returned if
\* job_status accepts it, and job_status's ValueError leaves main otherwise
WaitForEnds ==
    /\ mpc = "waiting"
    /\ \E st \in TerminalStatuses, d \in Payloads :
         mpc' = IF job_status([status |-> st, data |-> d], FALSE).raised = None
                  THEN "returned" ELSE "crashed"
    /\ UNCHANGED <<option, waited, replyVars, notManage>>

ManageNext ==
    \/ next_boot_virtual
    \/ next_boot_pxe
    \/ WaitForJob
    \/ WaitForEnds

ConnNext ==
    \/ \E h \in Hosts : Connect(h)
    \/ OpenClient
    \/ OpenRetry
    \/ KeyringGet
    \/ PromptFirst
    \/ Login
    \/ PromptRetry
    \/ WriteFile
    \/ KeyringSet
    \/ MakeHandle

Init ==
    ConnInit /\ ReplyOff /\ PowerAtRest /\ WaitAtRest /\ AcctAtRest
    /\ VirtAtRest /\ DriverAtRest /\ TwoAtRest /\ ManageAtRest
Next == ConnNext
Spec == Init /\ [][Next]_vars

InitReply ==
    ConnOff /\ ReplyInit /\ PowerAtRest /\ WaitAtRest /\ AcctAtRest
    /\ VirtAtRest /\ DriverAtRest /\ TwoAtRest /\ ManageAtRest
SpecReply == InitReply /\ [][ReplyNext]_vars

InitPower ==
    ConnOff /\ ReplyOff /\ PowerInit /\ WaitAtRest /\ AcctAtRest
    /\ VirtAtRest /\ DriverAtRest /\ TwoAtRest /\ ManageAtRest
SpecPower == InitPower /\ [][PowerNext]_vars

InitAcct ==
    ConnOff /\ ReplyOff /\ PowerAtRest /\ WaitAtRest /\ AcctInit
    /\ VirtAtRest /\ DriverAtRest /\ TwoAtRest /\ ManageAtRest
SpecAcct == InitAcct /\ [][AcctNext]_vars

InitAcctSeq ==
    ConnOff /\ ReplyOff /\ PowerAtRest /\ WaitAtRest /\ AcctSeqInit
    /\ VirtAtRest /\ DriverAtRest /\ TwoAtRest /\ ManageAtRest
SpecAcctSeq == InitAcctSeq /\ [][AcctSeqNext]_vars

InitVirt ==
    ConnOff /\ ReplyOff /\ PowerAtRest /\ WaitAtRest /\ AcctAtRest
    /\ VirtInit /\ DriverAtRest /\ TwoAtRest /\ ManageAtRest
SpecVirt == InitVirt /\ [][VirtNext]_vars

InitDriver ==
    ConnOff /\ ReplyOff /\ PowerAtRest /\ WaitAtRest /\ AcctAtRest
    /\ VirtAtRest /\ DriverInit /\ TwoAtRest /\ ManageAtRest
SpecDriver == InitDriver /\ [][DriverNext]_vars

InitTwo ==
    ConnOff /\ ReplyOff /\ PowerAtRest /\ WaitAtRest /\ AcctAtRest
    /\ VirtAtRest /\ DriverAtRest /\ TwoInit /\ ManageAtRest
SpecTwo == InitTwo /\ [][TwoNext]_vars

InitManage ==
    ConnOff /\ ReplyOff /\ PowerAtRest /\ WaitAtRest /\ AcctAtRest
    /\ VirtAtRest /\ DriverAtRest /\ TwoAtRest /\ ManageInit
SpecManage == InitManage /\ [][ManageNext]_vars

InitWait ==
    ConnOff /\ ReplyOff /\ PowerAtRest /\ WaitInit /\ AcctAtRest
    /\ VirtAtRest /\ DriverAtRest /\ TwoAtRest /\ ManageAtRest
SpecWait == InitWait /\ [][WaitNext]_vars
\* wait_for is a synchronous loop: once called, the poll and the sleep each complete
SpecWaitFair == SpecWait /\ WF_vars(Poll) /\ WF_vars(Sleep)

(***************************************************************************)
(* Reading the log of the running connect.                                 *)
(***************************************************************************)
Ops(op) == { i \in 1..Len(log) : log[i].op = op }
Has(op) == Ops(op) /= {}
Outcome(op, res) == { i \in Ops(op) : log[i].res = res }
LoginAccepted == Outcome("login", "ok") /= {}
AcceptedPw == log[CHOOSE i \in Outcome("login", "ok") : TRUE].arg
\* j is the login attempt that follows login attempt i
NextLoginAfter(i, j) ==
    /\ j \in Ops("login")
    /\ i < j
    /\ \A k \in Ops("login") : ~(i < k /\ k < j)
PromptsBetween(i, j) == { k \in Ops("prompt") : i < k /\ k < j }

(***************************************************************************)
(* C1. When the session cache read at startup holds a token for the        *)
(* hostname and the controller accepts that token, connect makes no         *)
(* password lookup: no keyring read, no provider call, no login call.       *)
(***************************************************************************)
CachedTokenAccepted ==
    /\ pc /= "idle"
    /\ startup[hostname] /= None
    /\ <<hostname, startup[hostname]>> \in ctrlSessions

C1_CachedTokenSkipsPassword ==
    CachedTokenAccepted =>
        /\ ~Has("kr_get")
        /\ ~Has("prompt")
        /\ ~Has("login")

(***************************************************************************)
(* C2. After a connect that ends with a successful login, the session      *)
(* cache, in memory and in the file, maps the hostname to the token of the  *)
(* new session, and the entries of other hostnames are as they were.        *)
(***************************************************************************)
C2_CacheHoldsNewToken ==
    (pc = "done" /\ LoginAccepted) =>
        /\ state_data[hostname] = clientKey
        /\ file.sessions[hostname] = clientKey
        /\ \A h \in Hosts \ {hostname} : file.sessions[h] = file0.sessions[h]

(***************************************************************************)
(* C3. The handle a successful connect returns carries the session token   *)
(* of the authenticated client, never an unset value.                       *)
(***************************************************************************)
C3_HandleCarriesToken ==
    pc = "done" =>
        /\ result.made
        /\ result.session_key /= None
        /\ result.session_key = clientKey

(***************************************************************************)
(* C4. The login loop.                                                     *)
(***************************************************************************)
\* every login attempt rejected with a 401 is followed by exactly one provider
\* call before the next attempt, which uses the password that call produced
RejectedThenOnePrompt ==
    \A i \in Outcome("login", "401") :
        /\ i < Len(log) => log[i + 1].op = "prompt"
        /\ i = Len(log) => pc = "prompt"
        /\ \A j \in Ops("login") :
             NextLoginAfter(i, j) =>
                /\ Cardinality(PromptsBetween(i, j)) = 1
                /\ \A k \in PromptsBetween(i, j) : log[j].arg = log[k].res

\* an InvalidCredentialsError without 401 in its text: the same password is tried
\* again, the provider is not asked
OtherRejectionRetriesSame ==
    \A i \in Outcome("login", "ice_other") :
        /\ i < Len(log) => (log[i + 1].op = "login" /\ log[i + 1].arg = log[i].arg)
        /\ i = Len(log) => pc = "login"

\* the exceptions that end the loop without an accepted login are among excs
LoopEndsOnlyBy(excs) ==
    (pc = "failed" /\ Has("login") /\ ~LoginAccepted) => err \in excs

\* C4 as claimed: the loop ends only when a login is accepted or the provider fails
C4_LoopEndsOnlyAcceptedOrProvider ==
    /\ RejectedThenOnePrompt
    /\ LoopEndsOnlyBy({"ProviderError"})

\* C4 as amended: the loop also ends when login raises an error that is not an
\* InvalidCredentialsError; an InvalidCredentialsError without 401 retries the
\* same password with no provider call; no attempt count ends the loop
C4_LoginLoop ==
    /\ RejectedThenOnePrompt
    /\ OtherRejectionRetriesSame
    /\ LoopEndsOnlyBy({"ProviderError", "LoginError"})
    /\ (pc = "failed" /\ err = "LoginError") =>
          (log[Len(log)].op = "login" /\ log[Len(log)].res = "error")
    /\ (pc = "failed" /\ err = "ProviderError") =>
          (log[Len(log)].op = "prompt" /\ log[Len(log)].res = ProviderFails)

\* two rejections, each answered by the provider, then an accepted login
C4_Witness ==
    /\ pc = "done"
    /\ Cardinality(Outcome("login", "401")) = 2
    /\ LoginAccepted
    /\ Cardinality(Ops("prompt")) >= 2

(***************************************************************************)
(* C5. An unreachable controller is retried exactly once with no session   *)
(* token; when the retry is unreachable too the error leaves connect and    *)
(* neither the session cache file nor the credential store is written.      *)
(***************************************************************************)
C5_UnreachableRetriedOnce ==
    /\ Cardinality(Ops("open")) <= 2
    /\ \A i \in Ops("open") : i <= 2
    /\ (Len(log) >= 1 /\ log[1].res = "ok") => Cardinality(Ops("open")) = 1
    /\ (Len(log) >= 1 /\ log[1].res = "unreachable") =>
          IF Len(log) = 1
            THEN pc = "retry"
            ELSE /\ log[2].op = "open"
                 /\ log[2].arg = None
                 /\ log[2].res = "unreachable" =>
                       /\ pc = "failed"
                       /\ err = "ServerDownOrUnreachableError"
                       /\ Len(log) = 2
                       /\ file = file0
                       /\ kr = kr0
                       /\ state_data = startup
                       /\ ~result.made

C5_Witness ==
    /\ pc = "failed"
    /\ Cardinality(Outcome("open", "unreachable")) = 2

(***************************************************************************)
(* C6. A locked secret store does not abort connect: a locked read is      *)
(* followed by one provider call before the first login attempt, a locked   *)
(* write after the accepted login is ignored and the handle is returned.    *)
(***************************************************************************)
C6_LockedStoreDoesNotAbort ==
    /\ \A i \in Outcome("kr_get", "locked") :
         /\ i = Len(log) => pc = "prompt0"
         /\ i < Len(log) => log[i + 1].op = "prompt"
         /\ \A j \in Ops("login") :
              (\A k \in Ops("login") : j <= k) =>
                 Cardinality({ k \in Ops("prompt") : k < j }) = 1
    /\ \A i \in Outcome("kr_set", "locked") :
         /\ LoginAccepted
         /\ i = Len(log) => pc = "handle"
         /\ i < Len(log) =>
              /\ log[i + 1].op = "managers"
              /\ log[i + 1].res = "members" => (pc = "done" /\ result.made)

C6_Witness ==
    /\ pc = "done"
    /\ result.made
    /\ Outcome("kr_get", "locked") /= {}
    /\ Outcome("kr_set", "locked") /= {}

(***************************************************************************)
(* C7. After an accepted login, set_password is called with the accepted   *)
(* password exactly when the lookup found no password (absent or locked);   *)
(* an unlocked write leaves the store holding that password; when the       *)
(* lookup found a password the store is not written.                        *)
(***************************************************************************)
StoreHadPassword == Outcome("kr_get", "found") /= {}

C7_StoreWrittenIffNotCached ==
    /\ \A i \in Ops("kr_set") :
         /\ \E j \in Outcome("login", "ok") : j < i
         /\ log[i].arg = AcceptedPw
         /\ log[i].res = "ok" => kr = AcceptedPw
    /\ Cardinality(Ops("kr_set")) <= 1
    /\ StoreHadPassword => (~Has("kr_set") /\ kr = kr0)
    /\ (LoginAccepted /\ (pc \in {"handle", "done"} \/ Has("managers"))) =>
          (Has("kr_set") <=> ~StoreHadPassword)

C7_Witness ==
    /\ pc = "done"
    /\ Outcome("kr_get", "absent") /= {}
    /\ Outcome("kr_set", "ok") /= {}
    /\ kr = ctrlPw
    /\ kr0 = None

C7_WitnessCached ==
    /\ pc = "done"
    /\ StoreHadPassword
    /\ ~Has("kr_set")

(***************************************************************************)
(* C8. The command executor never raises for a controller-reported error:  *)
(* for every response whose status differs from the expected one, whatever  *)
(* its body, _read_reply returns a CommandReply with succeeded = false and  *)
(* a message.                                                               *)
(***************************************************************************)
ReadDone == rpc \in {"returned", "raised"}
Mismatch == ReadDone /\ resp.status /= expected_status
Match == ReadDone /\ resp.status = expected_status

C8_NeverRaisesOnMismatch ==
    Mismatch =>
        /\ rpc = "returned"
        /\ reply.raised = None
        /\ ~reply.value.succeeded
        /\ reply.value.msg /= None

(***************************************************************************)
(* C9. For every response whose status equals the expected one the reply   *)
(* has succeeded = true and the success message; its job is the integer     *)
(* suffix of a task-location header of the form <prefix>_<digits>, and 0    *)
(* when the header is absent.                                               *)
(***************************************************************************)
\* s is <prefix>_<digits>: a non-empty prefix, an underscore, a non-empty run of digits
HasJobForm(s) ==
    \E k \in 2..(Len(s) - 1) :
        /\ s[k] = "_"
        /\ \A i \in (k + 1)..Len(s) : IsDigit(s[i])
LastSeparator(s) == CHOOSE k \in 1..Len(s) : s[k] = "_" /\ \A i \in (k + 1)..Len(s) : s[i] /= "_"
DigitSuffix(s) == SubSeq(s, LastSeparator(s) + 1, Len(s))

C9_MatchGivesJob ==
    Match =>
        /\ ~resp.task_location.present =>
              /\ rpc = "returned"
              /\ reply.value = CommandReply(TRUE, good_message, None, <<0>>)
        /\ (resp.task_location.present /\ HasJobForm(resp.task_location.text)) =>
              /\ rpc = "returned"
              /\ reply.value = CommandReply(TRUE, good_message, None,
                                            <<IntOf(DigitSuffix(resp.task_location.text))>>)

\* the headers the code serves: exactly one underscore, digits after it
SingleSeparatorGivesJob ==
    (Match /\ resp.task_location.present /\ HasJobForm(resp.task_location.text)
           /\ Len(Split(resp.task_location.text)) = 2) =>
        /\ rpc = "returned"
        /\ reply.value = CommandReply(TRUE, good_message, None,
                                      <<IntOf(DigitSuffix(resp.task_location.text))>>)

(***************************************************************************)
(* C10. On a status mismatch the reply message is the nested extended-     *)
(* error message field of the body when that field is present, and the raw  *)
(* body text unchanged when it is absent.                                   *)
(***************************************************************************)
\* the body is JSON holding error / @Message.ExtendedInfo / first element / Message
ExtendedMessagePresent(b) ==
    LET j == Bodies[b].json
    IN  /\ j.t = "obj"
        /\ "error" \in DOMAIN j.m
        /\ j.m["error"].t = "obj"
        /\ "@Message.ExtendedInfo" \in DOMAIN j.m["error"].m
        /\ j.m["error"].m["@Message.ExtendedInfo"].t = "arr"
        /\ Len(j.m["error"].m["@Message.ExtendedInfo"].m) >= 1
        /\ j.m["error"].m["@Message.ExtendedInfo"].m[1].t = "obj"
        /\ "Message" \in DOMAIN j.m["error"].m["@Message.ExtendedInfo"].m[1].m
ExtendedMessageOf(b) ==
    Bodies[b].json.m["error"].m["@Message.ExtendedInfo"].m[1].m["Message"].m

C10_MismatchMessage ==
    Mismatch =>
        /\ rpc = "returned"
        /\ ~reply.value.succeeded
        /\ reply.value.msg = IF ExtendedMessagePresent(resp.body)
                               THEN ExtendedMessageOf(resp.body)
                               ELSE Bodies[resp.body].text

\* the bodies the code serves: JSON in which a dict lookup is what fails
KeyErrorGivesRawText ==
    (Mismatch /\ rpc = "returned") =>
        /\ ~reply.value.succeeded
        /\ reply.value.msg = IF ExtendedMessagePresent(resp.body)
                               THEN ExtendedMessageOf(resp.body)
                               ELSE Bodies[resp.body].text

(***************************************************************************)
(* Power transitions                                                       *)
(***************************************************************************)
PowerDone == ppc = "done"
PowerReturned == PowerDone /\ reply.raised = None
\* the transition came back with succeeded = true
Succeeded == PowerReturned /\ reply.value.succeeded
\* the controller answered the reset action with a task location naming a job
JobCreated == posts /= <<>> /\ resp.status = 204 /\ Truthy(resp.task_location)

\* C11: every CommandReply a power transition returns, the no-op replies and the
\* failure replies included, carries an integer job, 0 when no asynchronous job was
\* created and nonzero when one was.
C11_JobIsAlwaysInteger ==
    PowerReturned =>
        /\ Len(reply.value.job) = 1
        /\ (reply.value.job[1] = 0) <=> ~JobCreated

\* the reset type each shutdown transition posts and the message of its success
ResetTypeOf(m) == IF m = "turn_off" THEN "GracefulShutdown" ELSE "ForceOff"
CommandOf(m) == IF m = "turn_off" THEN "Shutdown" ELSE "Force shutdown"
ShutdownDone == PowerDone /\ method \in {"turn_off", "force_off"}
NoOp(msg) == reply = Returned(CommandReply(TRUE, msg, None, <<>>))

\* what the controller's answer to the one posted action makes of the reply
AnswerDecides(command) ==
    /\ Succeeded => resp.status = 204 /\ reply.value.msg = command
    /\ (resp.status = 204 /\ ~Truthy(resp.task_location)) => Succeeded
    /\ resp.status /= 204 => ~Succeeded

\* C15 as stated: with power state "On" turn_off posts exactly one graceful
\* shutdown (force_off exactly one forced power-off) and returns succeeded = true;
\* with any other state it posts nothing and returns succeeded = true with a
\* no-op message.
C15_ShutdownAlwaysSucceeds ==
    ShutdownDone =>
        IF power = "On"
          THEN posts = << ResetTypeOf(method) >> /\ Succeeded
          ELSE posts = <<>> /\ Succeeded /\ reply.value.msg = "Already off"

\* C15 amended: with power state "On" exactly one action of the transition's reset
\* type is posted, and the reply is succeeded = true only when the controller
\* answers 204 (always so when the answer has no task location); any other answer
\* gives succeeded = false or an exception. With any other state nothing is posted
\* and the reply is succeeded = true, 'Already off'.
C15_ShutdownOnlyWhenOn ==
    ShutdownDone =>
        IF power = "On"
          THEN posts = << ResetTypeOf(method) >> /\ AnswerDecides(CommandOf(method))
          ELSE posts = <<>> /\ NoOp("Already off")

C15_Witness ==
    /\ ShutdownDone
    /\ method = "force_off"
    /\ power = "On"
    /\ posts = << "ForceOff" >>
    /\ resp.status = 400
    /\ PowerReturned
    /\ ~reply.value.succeeded

C15_WitnessNoOp ==
    /\ ShutdownDone
    /\ method = "turn_off"
    /\ power = "PoweringOn"
    /\ posts = <<>>
    /\ Succeeded

\* C16 as stated: with power state "Off" turn_on posts exactly one power-on action
\* and returns succeeded = true; with any other state it posts nothing and returns
\* succeeded = true with the message 'Already on'.
C16_TurnOnAlwaysSucceeds ==
    (PowerDone /\ method = "turn_on") =>
        IF power = "Off"
          THEN posts = << "On" >> /\ Succeeded
          ELSE posts = <<>> /\ Succeeded /\ reply.value.msg = "Already on"

\* C16 amended: with power state "Off" exactly one power-on action is posted, and
\* the reply is succeeded = true only when the controller answers 204 (always so
\* when the answer has no task location); any other answer gives succeeded = false
\* or an exception. With any other state nothing is posted and the reply is
\* succeeded = true, 'Already on'.
C16_TurnOnOnlyWhenOff ==
    (PowerDone /\ method = "turn_on") =>
        IF power = "Off"
          THEN posts = << "On" >> /\ AnswerDecides("Turn on")
          ELSE posts = <<>> /\ NoOp("Already on")

C16_Witness ==
    /\ PowerDone
    /\ method = "turn_on"
    /\ power = "Off"
    /\ posts = << "On" >>
    /\ resp.status = 204
    /\ Succeeded
    /\ reply.value.job = <<0>>

C16_WitnessNoOp ==
    /\ PowerDone
    /\ method = "turn_on"
    /\ power = "PoweringOn"
    /\ posts = <<>>
    /\ NoOp("Already on")

(***************************************************************************)
(* Job polling                                                             *)
(***************************************************************************)
Waiting == wpc \in {"poll", "sleep"}
WaitEnded == wpc \in {"returned", "raised"}
LastPoll == polls[Len(polls)]
\* polls before the k-th that answered 202
Polls202(k) == Cardinality({ i \in 1..k : polls[i].status = 202 })
\* the first poll answered with a status other than 202, as a set of positions
FirstNon202 == { i \in 1..Len(polls) : polls[i].status /= 202 /\ Polls202(i - 1) = i - 1 }

\* C12: one poll per iteration of the job called for; after a poll answered 202
\* comes one sleep and then the next poll; the first poll answered 200 ends the wait
\* with that JobStatus and no further sleep or poll; sleeps = polls answered 202.
C12_SleepPerPoll202 ==
    /\ \A i \in 1..Len(polls) : polls[i].job = job_id
    /\ wpc = "poll" => sleeps = Len(polls) /\ Polls202(Len(polls)) = Len(polls)
    /\ wpc = "sleep" =>
          /\ Len(polls) >= 1
          /\ LastPoll.status = 202
          /\ sleeps = Len(polls) - 1
          /\ Polls202(Len(polls)) = Len(polls)
    /\ WaitEnded =>
          /\ FirstNon202 = {Len(polls)}
          /\ sleeps = Polls202(Len(polls))
    /\ (WaitEnded /\ LastPoll.status = 200) =>
          /\ wpc = "returned"
          /\ wres = [raised |-> None, status |-> 200, data |-> LastPoll.data]

C12_Witness ==
    /\ wpc = "returned"
    /\ Len(polls) = 3
    /\ sleeps = 2
    /\ LastPoll.status = 200

\* C13: wait_for returns iff the first status polled other than 202 is 200, or is
\* 404 with allow404; a 404 without allow404 and every other status raise an error
\* carrying the status and the payload; nothing is polled after it.
C13_ReturnsIff200OrAllowed404 ==
    WaitEnded =>
        /\ FirstNon202 = {Len(polls)}
        /\ wpc = "returned" <=>
              (LastPoll.status = 200 \/ (LastPoll.status = 404 /\ allow404))
        /\ wpc = "returned" =>
              wres = [raised |-> None, status |-> LastPoll.status, data |-> LastPoll.data]
        /\ wpc = "raised" =>
              /\ wres.raised = "ValueError"
              /\ wres.status = LastPoll.status
              /\ wres.data = LastPoll.data

C13_Witness ==
    /\ wpc = "raised"
    /\ ~allow404
    /\ Len(polls) = 2
    /\ LastPoll.status = 404

C13_WitnessAllowed ==
    /\ wpc = "returned"
    /\ allow404
    /\ LastPoll.status = 404

\* C14: wait_for ends (returns or raises) once the controller's answer for the task
\* is a status other than 202, and never ends while every answer is 202: there is
\* no count of polls or sleeps after which it gives up.
C14_BlocksUntilTerminal ==
    /\ [](WaitEnded => (LastPoll.status /= 202 /\ ~Running(task)))
    /\ [](Waiting => Polls202(Len(polls)) = Len(polls))
    /\ ((Waiting /\ ~Running(task)) ~> WaitEnded)

C14_Witness ==
    /\ WaitEnded
    /\ Len(polls) = MaxPolls + 1
    /\ sleeps = MaxPolls

\* the loop still polling after as many 202 answers as the model allows
C14_WitnessStillWaiting ==
    /\ Waiting
    /\ Running(task)
    /\ Len(polls) = MaxPolls
    /\ sleeps = MaxPolls

(***************************************************************************)
(* Accounts                                                                *)
(***************************************************************************)
AcctDone(op) == apc = "done" /\ acall.op = op
\* read off the Members the operation was answered with
SlotOf(m) == IntOf(m.Id)
FreeAt(i) == SlotOf(listed[i]) > 1 /\ ~listed[i].Enabled /\ listed[i].UserName = ""
FreePositions == { i \in 1..Len(listed) : FreeAt(i) }
OtherDescription == { i \in 1..Len(listed) : listed[i].Description \notin {"User Account", None} }
First(S) == CHOOSE i \in S : \A j \in S : i <= j

\* C17: unused_account_slot never returns slot 0 or 1, even when that slot is
\* disabled with an empty name; a slot it returns has id > 1, is not enabled and has
\* the name "" in the listing scanned.
C17_NeverReservedSlot ==
    (AcctDone("unused_account_slot") /\ aresult.raised = None) =>
        /\ Len(aresult.slot) = 1
        /\ aresult.slot[1] \notin {0, 1}
        /\ \E i \in 1..Len(listed) :
             /\ SlotOf(listed[i]) = aresult.slot[1]
             /\ SlotOf(listed[i]) > 1
             /\ ~listed[i].Enabled
             /\ listed[i].UserName = ""

C17_Witness ==
    /\ AcctDone("unused_account_slot")
    /\ Len(listed) = 2
    /\ SlotOf(listed[1]) = 1 /\ ~listed[1].Enabled /\ listed[1].UserName = ""
    /\ FreeAt(2)
    /\ aresult.slot = << SlotOf(listed[2]) >>

\* C18: unused_account_slot returns the first slot in the listing's order, not the
\* smallest id, that is free (id > 1, not enabled, name ""), and raises 'All account
\* slots in use' exactly when no member of the listing is free. A member of another
\* type ends the scan with 'Unexpected type' if it comes before the first free slot.
C18_FirstFreeInListingOrder ==
    AcctDone("unused_account_slot") =>
        /\ aresult.raised = None =>
              /\ FreePositions /= {}
              /\ aresult.slot = << SlotOf(listed[First(FreePositions)]) >>
        /\ aresult.raised = "All account slots in use" => FreePositions = {}
        /\ OtherDescription = {} =>
              /\ FreePositions /= {} => aresult.raised = None
              /\ FreePositions = {} => aresult.raised = "All account slots in use"
        /\ OtherDescription /= {} =>
              IF FreePositions /= {} /\ First(FreePositions) < First(OtherDescription)
                THEN aresult.raised = None
                ELSE aresult.raised = "Unexpected type"

C18_Witness ==
    /\ AcctDone("unused_account_slot")
    /\ Len(listed) = 2
    /\ FreeAt(1) /\ FreeAt(2)
    /\ SlotOf(listed[1]) = 3 /\ SlotOf(listed[2]) = 2
    /\ aresult.slot = <<3>>

C18_WitnessNoFreeSlot ==
    /\ AcctDone("unused_account_slot")
    /\ Len(listed) = 2
    /\ SlotOf(listed[1]) = 0 /\ ~listed[1].Enabled /\ listed[1].UserName = ""
    /\ aresult.raised = "All account slots in use"

AccountsAsListed ==
    /\ aresult.raised = None
    /\ Len(aresult.accounts) = Len(listed)
    /\ \A i \in 1..Len(listed) :
         aresult.accounts[i] = [id |-> SlotOf(listed[i]), enabled |-> listed[i].Enabled,
                                name |-> listed[i].UserName, role |-> listed[i].RoleId]

\* C19 as stated: if the description of any member is not the marker, a member with
\* no description included, the enumeration fails with 'Unexpected type'; otherwise
\* it gives one Account per member in the controller's order.
C19_EveryDescriptionIsMarker ==
    AcctDone("accounts") =>
        IF \E i \in 1..Len(listed) : listed[i].Description /= "User Account"
          THEN aresult.raised = "Unexpected type"
          ELSE AccountsAsListed

\* C19 amended: the enumeration fails with 'Unexpected type' iff some member has a
\* description that is present and is not the marker; a member with no description
\* is accepted; otherwise it gives one Account per member in the controller's order.
C19_PresentDescriptionIsMarker ==
    AcctDone("accounts") =>
        IF OtherDescription /= {}
          THEN aresult.raised = "Unexpected type" /\ aresult.accounts = <<>>
          ELSE AccountsAsListed

C19_Witness ==
    /\ AcctDone("accounts")
    /\ Len(listed) = 2
    /\ listed[1].Description = "User Account"
    /\ listed[2].Description = None
    /\ Len(aresult.accounts) = 2
    /\ aresult.raised = None

C19_WitnessFails ==
    /\ AcctDone("accounts")
    /\ Len(listed) = 2
    /\ listed[1].Description = "User Account"
    /\ listed[2].Description = "Other"
    /\ aresult.raised = "Unexpected type"

\* read off the call and the Members it was answered with
NameListed == \E i \in 1..Len(listed) : listed[i].UserName = acall.name
SlotListed == \E i \in 1..Len(listed) : SlotOf(listed[i]) = acall.slot
SlotTaken ==
    \E i \in 1..Len(listed) :
        /\ SlotOf(listed[i]) = acall.slot
        /\ (listed[i].Enabled \/ listed[i].UserName /= "")
Failed(msg) == aresult.raised = msg /\ patches = <<>> /\ warned = 0
OnePatch ==
    patches = << [slot |-> acall.slot,
                  payload |-> [UserName |-> acall.name, Password |-> acall.password,
                               RoleId |-> acall.role, Enabled |-> TRUE]] >>

\* C20: create_account checks in this order and stops at the first that applies: a
\* role outside ROLES raises before any query of the controller; an account of that
\* name in the listing logs a warning and returns with no PATCH; a slot absent from
\* the listing raises 'slot not found'; a slot enabled or named raises 'in use';
\* only otherwise is the slot patched with {name, password, role, enabled true}.
\* No PATCH is sent in a failing case, a listing that fails included.
C20_ChecksInOrder ==
    AcctDone("create_account") =>
        /\ aresult.raised /= None => patches = <<>>
        /\ CASE acall.role \notin {"Administrator", "Operator", "ReadOnly", "None"} ->
                  Failed("Role") /\ queries = 0
             [] OTHER ->
                  /\ queries = 1
                  /\ CASE OtherDescription /= {} -> Failed("Unexpected type")
                       [] OTHER ->
                            CASE NameListed ->
                                   aresult.raised = None /\ patches = <<>> /\ warned = 1
                              [] OTHER ->
                                   CASE ~SlotListed -> Failed("slot not found")
                                     [] OTHER ->
                                          CASE SlotTaken -> Failed("Account in use")
                                            [] OTHER -> aresult.raised = None /\ OnePatch

\* an account of the name exists and the slot is absent: the warning, not the error
C20_Witness ==
    /\ AcctDone("create_account")
    /\ acall.role \in ROLES
    /\ NameListed
    /\ ~SlotListed
    /\ aresult.raised = None
    /\ warned = 1
    /\ patches = <<>>

C20_WitnessPatched ==
    /\ AcctDone("create_account")
    /\ acall.slot = 1
    /\ OnePatch
    /\ \E i \in 1..Len(members) :
         SlotOf(members[i]) = 1 /\ members[i].Enabled /\ members[i].UserName = acall.name

C20_WitnessInvalidRole ==
    /\ AcctDone("create_account")
    /\ acall.role = "Root"
    /\ \E i \in 1..Len(members) : members[i].UserName = acall.name
    /\ queries = 0
    /\ Failed("Role")

\* no two members of the collection have the same non-empty name
NoTwoOfAName(ms) ==
    \A i, j \in 1..Len(ms) :
        (ms[i].UserName = ms[j].UserName /\ ms[i].UserName /= "") => i = j
CreateStep == apc = "idle" /\ apc' = "done" /\ acall'.op = "create_account"

\* C21: a create_account for a name the controller already holds, whatever the slot,
\* sends no PATCH and changes nothing on the controller; so no create_account gives
\* the controller a second account of a non-empty name.
C21_SecondCreateIsNoOp ==
    [][ CreateStep =>
          /\ (\E i \in 1..Len(members) : members[i].UserName = acall'.name) =>
                (patches' = patches /\ members' = members)
          /\ NoTwoOfAName(members) => NoTwoOfAName(members') ]_vars

\* a second create_account of the name the first one's PATCH gave to another slot
C21_Witness ==
    /\ AcctDone("create_account")
    /\ ncalls = 1
    /\ queries = 2
    /\ Len(patches) = 1
    /\ "UserName" \in DOMAIN patches[1].payload
    /\ patches[1].payload.UserName = acall.name
    /\ patches[1].slot /= acall.slot
    /\ \E i \in 1..Len(members) :
         /\ SlotOf(members[i]) = patches[1].slot
         /\ members[i].UserName = acall.name
         /\ members[i].Enabled
    /\ \E i \in 1..Len(members) :
         /\ SlotOf(members[i]) = acall.slot
         /\ ~members[i].Enabled
         /\ members[i].UserName = ""
    /\ warned = 1
    /\ aresult.raised = None

NamePositions == { i \in 1..Len(listed) : listed[i].UserName = acall.name }
\* the controller's collection is as listed, but for the password of one position
OnlyPasswordAt(k) ==
    /\ Len(members) = Len(listed)
    /\ \A i \in 1..Len(listed) :
         /\ members[i].Id = listed[i].Id
         /\ members[i].UserName = listed[i].UserName
         /\ members[i].RoleId = listed[i].RoleId
         /\ members[i].Enabled = listed[i].Enabled
         /\ members[i].Description = listed[i].Description
         /\ i /= k => members[i] = listed[i]

\* C22: set_password sends no PATCH when no listed account has the name; otherwise
\* it sends one PATCH, to the slot of the first listed account of that name, whose
\* body is the password alone; that account's name, role and enabled flag and every
\* other slot stay as they were. A listing that fails raises, with no PATCH.
C22_PatchesOnlyPassword ==
    AcctDone("set_password") =>
        CASE OtherDescription /= {} -> Failed("Unexpected type") /\ members = listed
          [] OtherDescription = {} /\ NamePositions = {} ->
               /\ aresult.raised = None
               /\ patches = <<>>
               /\ warned = 1
               /\ members = listed
          [] OTHER ->
               /\ aresult.raised = None
               /\ patches = << [slot |-> SlotOf(listed[First(NamePositions)]),
                                payload |-> [Password |-> acall.password]] >>
               /\ OnlyPasswordAt(First(NamePositions))

\* two listed accounts of the name: the PATCH goes to the first, and is applied
C22_Witness ==
    /\ AcctDone("set_password")
    /\ NamePositions = {1, 2}
    /\ SlotOf(listed[1]) > SlotOf(listed[2])
    /\ Len(patches) = 1
    /\ patches[1].slot = SlotOf(listed[1])
    /\ members[1].Password = acall.password
    /\ members[2].Password /= acall.password

C22_WitnessNotFound ==
    /\ AcctDone("set_password")
    /\ Len(listed) = 2
    /\ NamePositions = {}
    /\ OtherDescription = {}
    /\ patches = <<>>
    /\ warned = 1

\* C23: create_account and set_password send at most one PATCH in a call, with no
\* retry; when the PATCH is answered with a status other than 200 the operation logs
\* one warning and returns normally.
C23_OnePatchNoRetry ==
    (AcctDone("create_account") \/ AcctDone("set_password")) =>
        /\ Len(patches) <= 1
        /\ Len(answered) = Len(patches)
        /\ Len(patches) = 1 =>
              /\ aresult.raised = None
              /\ warned = IF answered[1] = 200 THEN 0 ELSE 1
              /\ answered[1] /= 200 => members = listed

C23_Witness ==
    /\ AcctDone("create_account")
    /\ answered = <<400>>
    /\ Len(patches) = 1
    /\ aresult.raised = None
    /\ warned = 1

C23_WitnessSetPassword ==
    /\ AcctDone("set_password")
    /\ answered = <<400>>
    /\ Len(patches) = 1
    /\ aresult.raised = None
    /\ warned = 1

\* C30: create_account never sends a PATCH to slot 0 or 1, even when that slot is
\* listed as disabled with an empty name.
C30_CreateNeverPatchesReserved ==
    AcctDone("create_account") =>
        \A k \in 1..Len(patches) : patches[k].slot \notin {0, 1}

(***************************************************************************)
(* Persistence after the login                                             *)
(***************************************************************************)
\* C24: after a new login, once connect has written the session cache file, the
\* file is readable and writable by its owner only, whether this write created it
\* or it existed before with any permissions.
C24_CacheFileOwnerOnly ==
    (LoginAccepted /\ Has("write_file")) => file.mode = "0600"

\* the credential store was never found locked in this connect
StoreUnlocked == Outcome("kr_get", "locked") = {} /\ Outcome("kr_set", "locked") = {}

\* C28: after a successful connect with an unlocked credential store, the store
\* holds the password the controller accepted, also when the stored password was
\* rejected and the accepted one came from the provider.
C28_StoreHoldsAcceptedPassword ==
    (pc = "done" /\ result.made /\ LoginAccepted /\ StoreUnlocked) => kr = AcceptedPw

\* C29: in every connect the session cache file is written only after an accepted
\* login and the credential store only after the file, and what is written to the
\* store is the accepted password, never a rejected one.
C29_WritesFollowAcceptedLogin ==
    /\ \A w \in Ops("write_file") : \E j \in Outcome("login", "ok") : j < w
    /\ \A i \in Ops("kr_set") :
         /\ \E w \in Ops("write_file") : w < i
         /\ log[i].arg = AcceptedPw
         /\ log[i].arg = ctrlPw
         /\ \A r \in Outcome("login", "401") : log[r].arg /= log[i].arg
    /\ ~LoginAccepted => (file = file0 /\ kr = kr0)
    /\ kr /= kr0 => kr = ctrlPw

\* a rejected password from the provider, then the accepted one, written to the store
C29_Witness ==
    /\ pc = "done"
    /\ Outcome("kr_get", "absent") /= {}
    /\ Outcome("login", "401") /= {}
    /\ Outcome("kr_set", "ok") /= {}
    /\ file.exists /\ ~file0.exists
    /\ kr = ctrlPw

(***************************************************************************)
(* Virtual media listing                                                   *)
(***************************************************************************)
VirtDone == vpc \in {"returned", "raised"}
SomeQueryNot200 == vcoll.status /= 200 \/ \E i \in 1..Len(vgets) : vgets[i].status /= 200

\* C27: when the collection query or a device query is answered with a status
\* other than 200, get_virtual returns a CommandReply with succeeded = false and
\* does not raise; it returns succeeded = true with one VirtualMedia per member
\* only when every query was answered 200.
C27_ListingFailsWithReply ==
    VirtDone =>
        /\ vpc = "returned"
        /\ vreply.raised = None
        /\ IF SomeQueryNot200
             THEN ~vreply.succeeded
             ELSE /\ vreply.succeeded
                  /\ Len(vreply.results) = vcoll.members
                  /\ \A i \in 1..Len(vreply.results) : vreply.results[i].id = devices[i]

\* what the code does: every query answered 200 gives the devices; any other
\* answer raises
GetVirtualRaisesOnError ==
    VirtDone =>
        IF SomeQueryNot200
          THEN vpc = "raised" /\ vreply.raised /= None
          ELSE /\ vpc = "returned"
               /\ vreply.succeeded
               /\ Len(vreply.results) = vcoll.members

(***************************************************************************)
(* The account driver                                                      *)
(***************************************************************************)
Raising == SelectSeq(attempted, LAMBDA a : a.raised /= None)
\* every iteration that raised so far was reported, in order, and the loop went on
ReportedAndContinued ==
    /\ dpc \in {"loop", "ended"}
    /\ reported = Raising
    /\ \A i \in 1..Len(attempted) : attempted[i].idrac = idracs[i]
    /\ dpc = "ended" => Len(attempted) = Len(idracs)

\* C25: a fatal error raised while one controller is processed (connect, listing,
\* create or set-password) is reported for that controller and the loop goes on
\* with the next: every controller of the batch is attempted once, in order.
C25_DriverContinuesAfterError ==
    ReportedAndContinued

\* the driver whose loop body is in a try block does so
DriverWithTryContinues ==
    Catches(script) => ReportedAndContinued

DriverWithTryWitness ==
    /\ script = WithTry
    /\ dpc = "ended"
    /\ Len(idracs) = 2
    /\ attempted[1].raised = "connect"
    /\ attempted[2].raised = None
    /\ Len(reported) = 1

(***************************************************************************)
(* Two processes on one session cache file                                 *)
(***************************************************************************)
\* C26: the two processes are not coordinated: each reads the file once at startup
\* and rewrites it wholesale after its own login, so the file holds the state of the
\* last writer, the session of that writer's login included, and an entry the other
\* process wrote in between is lost.
C26_LastWriterWins ==
    \A p \in Procs :
        (procs[p].pc = "written" /\ cache.writer = p) =>
            /\ cache.sessions = procs[p].state_data
            /\ cache.sessions[procs[p].host] = procs[p].token

\* what the code does: the file is rewritten with what the writer read at startup,
\* so no token of a login ever reaches the file and no entry is there to be lost
NoSessionEntryEverWritten ==
    /\ \A h \in Hosts : cache.sessions[h] \in OldTokens \cup {None}
    /\ \A p \in Procs :
         (procs[p].pc = "written" /\ cache.writer = p) =>
             cache.sessions = procs[p].state_data
    /\ \A p, q \in Procs :
         (procs[p].pc /= "new" /\ procs[q].pc /= "new") =>
             procs[p].state_data = procs[q].state_data

BothHaveWritten ==
    /\ \A p \in Procs : procs[p].pc = "written"
    /\ procs[1].host = procs[2].host
    /\ cache.writer = 2


(***************************************************************************)
(* The management driver and the jobs it waits on.                         *)
(***************************************************************************)
WaitEntered == Len(waited) > 0

\* C31: after a boot-order command the driver enters wait_for only when the reply
\* has succeeded = true and a job id that is an integer other than 0
C31_WaitsOnlyOnRealJobs ==
    \A i \in 1..Len(waited) :
        /\ reply.value.succeeded
        /\ waited[i] /= <<>>
        /\ waited[i] /= <<0>>

\* what the driver does: wait_for is entered once after every reply the command
\* returned, with the reply's job field as it is
WaitsOnWhateverJob ==
    /\ mpc \in {"waiting", "returned", "crashed"} <=> WaitEntered
    /\ WaitEntered => waited = <<reply.value.job>>
    /\ mpc = "raised" => ~WaitEntered

\* wait_for entered with the job field of a failed reply, which is None
WaitedOnFailedReply ==
    /\ WaitEntered
    /\ ~reply.value.succeeded
    /\ waited = << <<>> >>

\* wait_for entered with job 0: the command succeeded without a task location
WaitedOnJobZero ==
    /\ WaitEntered
    /\ reply.value.succeeded
    /\ waited = << <<0>> >>

\* wait_for entered with the job the task location names
WaitedOnRealJob ==
    /\ WaitEntered
    /\ reply.value.succeeded
    /\ waited /= << <<0>> >>

==============================================================================
